---------------------------- MODULE Spec2Model ----------------------------
(***************************************************************************)
(* Newton core: constraint projection (Dykstra) and the Aid-a suggestion   *)
(* pipeline.                                                               *)
(*                                                                         *)
(* NUMBERS.  The program computes with f64.  The model computes with       *)
(* integers that count ticks of a grid; the variable `grid` names the      *)
(* grid of a run:                                                          *)
(*                                                                         *)
(*   grid = "unit"  one tick is 1.0.  EPSILON = 1e-10 and TOLERANCE = 1e-8 *)
(*                  lie strictly between 0 and one tick.  Every value the  *)
(*                  program computes on the inputs of such a run is a      *)
(*                  whole number (1-dimensional states, normals +1/-1,     *)
(*                  whole bounds), which f64 represents exactly.           *)
(*   grid = "fine"  one tick is EPSILON / EpsTicks (2.5e-11), so that      *)
(*                  EPSILON is EpsTicks ticks and TOLERANCE = 100*EPSILON  *)
(*                  is 100*EpsTicks ticks.  Inputs are states whose        *)
(*                  coordinates are a few hundred thousand ticks (1e-5).   *)
(*                  A quotient is rounded to the nearest tick; f64 rounds  *)
(*                  it to a far finer step, so the two differ by less than *)
(*                  EPSILON.                                               *)
(*                                                                         *)
(* A comparison against EPSILON or TOLERANCE is stated on integers through *)
(* the floor and the ceiling of the constant in ticks.                     *)
(***************************************************************************)
EXTENDS Integers, Sequences, FiniteSets, TLC

VARIABLES
    grid,           \* "unit" or "fine": the tick of this run (see above)
    \* ---- one call of project_convex_internal (dykstra.rs) ----
    pc,             \* "idle", "loop", "done", "panic"; "off": no call
    point,          \* argument: the point to project
    constraints,    \* argument: the constraint list
    x,              \* local x
    x_prev,         \* local x_prev
    y,              \* local y: one correction vector per constraint
    iterations,     \* local iterations
    converged,      \* DykstraResult.converged
    final_change,   \* DykstraResult.final_change: the vector whose norm it is
    \* ---- one call of suggest (aida.rs), and a second call on the same
    \*      current, delta.vector and constraints ----
    current,        \* argument: current state
    delta,          \* argument of the first call: Delta [vector, source, timestamp_us]
    delta2,         \* argument of the second call
    clock,          \* <<time elapsed between the clock reads of the first call, of the second>>
    response,       \* AidAResponse of the first call, or NoResponse
    response2,      \* AidAResponse of the second call, or NoResponse
    \* ---- one call of filter_and_rank (candidates.rs) ----
    rank_intent,    \* argument: the intent (a point)
    candidates,     \* argument: the candidate list
    valid,          \* NotCalled, or Returned(the returned list)
    \* ---- one value built by a constructor, one call on it or of a free
    \*      function, and the same function applied to what the call returned ----
    subject,        \* NoSubject, the constructed value, or Panicked
    call,           \* NoCall, or the arguments and the results of the call
    recall          \* NoCall, or the results of the second application

vars == <<grid, pc, point, constraints, x, x_prev, y, iterations, converged,
          final_change, current, delta, delta2, clock, response, response2,
          rank_intent, candidates, valid, subject, call, recall>>

kernelVars == <<pc, point, x, x_prev, y, iterations, converged, final_change>>
suggestVars == <<current, delta, delta2, clock, response, response2,
                 rank_intent, candidates, valid>>
probeVars == <<subject, call, recall>>

---------------------------------------------------------------------------
(* Bounds of the model *)

\* ticks per EPSILON on the fine grid
EpsTicks == 4
\* fine-grid inputs are multiples of this many ticks
FineStep == 100000
\* unit-grid coordinates and moves lie in -MaxCoord..MaxCoord
MaxCoord == 3
\* the current state of a suggest call lies in -MaxCurrent..MaxCurrent
MaxCurrent == 1
\* clock readings and timestamps are drawn from 0..MaxClock
MaxClock == 1
\* fine-grid points have coordinates in {-FineSpan, 0, FineSpan} * FineStep
FineSpan == 3
\* at most this many constraints in a list
MaxConstraints == 2
\* at most this many candidates in a list given to filter_and_rank
MaxCandidates == 3

---------------------------------------------------------------------------
(* constants.rs *)

MAX_ITERATIONS == 100
MAX_CANDIDATES == 24
SHELL_RADII == <<1, 2, 4, 8, 100>>      \* in units of 1.0: unit grid only

\* floor and ceiling of EPSILON, and of TOLERANCE = 100 * EPSILON, in ticks
EpsFloor == IF grid = "fine" THEN EpsTicks ELSE 0
EpsCeil  == IF grid = "fine" THEN EpsTicks ELSE 1
TolCeil  == IF grid = "fine" THEN 100 * EpsTicks ELSE 1

\* v <= EPSILON, v > EPSILON, v < EPSILON, v >= -EPSILON, v < -EPSILON for a
\* whole number of ticks v
LeEps(v)    == v <= EpsFloor
GtEps(v)    == v > EpsFloor
LtEps(v)    == v < EpsCeil
GeNegEps(v) == v >= -EpsFloor
LtNegEps(v) == v < -EpsFloor

Abs(v) == IF v < 0 THEN -v ELSE v
Min(a, b) == IF a < b THEN a ELSE b
Max(a, b) == IF a > b THEN a ELSE b

\* n / d rounded to the nearest integer (d > 0): an f64 quotient on the grid
RoundDiv(n, d) == (2 * n + d) \div (2 * d)

\* is_near_zero(x) for a sum of squares of whole numbers (a normal's squared
\* norm is dimensionless: below 1e-10 means zero)
is_near_zero(n) == n = 0

\* an assert! failed and the call panicked: no value is returned
Panicked == [panicked |-> TRUE]

---------------------------------------------------------------------------
(* linalg.rs: Vector, as a sequence of ticks *)

Dim(v) == Len(v)
Zeros(n) == [k \in 1..n |-> 0]
VAdd(a, b) == [k \in 1..Len(a) |-> a[k] + b[k]]
VSub(a, b) == [k \in 1..Len(a) |-> a[k] - b[k]]

RECURSIVE SumTo(_, _)
SumTo(f, n) == IF n = 0 THEN 0 ELSE SumTo(f, n - 1) + f[n]

Dot(a, b) == SumTo([k \in 1..Len(a) |-> a[k] * b[k]], Len(a))
NormSquared(v) == Dot(v, v)

\* norm() < bound and norm() > bound for a whole bound >= 0, without squaring a
\* component that already decides the comparison
NormLt(v, bound) ==
    /\ \A k \in 1..Len(v) : Abs(v[k]) < bound
    /\ NormSquared(v) < bound * bound
NormGt(v, bound) ==
    \/ \E k \in 1..Len(v) : Abs(v[k]) > bound
    \/ NormSquared(v) > bound * bound

\* norm() of a 1-dimensional vector (exact)
Norm1(v) == Abs(v[1])

\* a.distance(b) of two vectors that differ in at most one coordinate (exact)
Norm1Diff(a, b) == SumTo([k \in 1..Len(a) |-> Abs(a[k] - b[k])], Len(a))

\* lexicographic_cmp(a, b) = Less, on vectors without NaN
RECURSIVE LexLessFrom(_, _, _)
LexLessFrom(a, b, k) ==
    IF k > Len(a) \/ k > Len(b) THEN Len(a) < Len(b)
    ELSE IF a[k] = b[k] THEN LexLessFrom(a, b, k + 1)
    ELSE a[k] < b[k]
LexLess(a, b) == LexLessFrom(a, b, 1)

\* approx_eq: distance below TOLERANCE
ApproxEq(a, b) == Len(a) = Len(b) /\ NormLt(VSub(a, b), TolCeil)

---------------------------------------------------------------------------
(* constraints/: the four Constraint variants, as records tagged by `kind` *)

\* BoxBounds::new: the dimensions must match and min[i] <= max[i] + EPSILON
BoxBounds(min, max) ==
    IF Len(min) # Len(max) \/ \E k \in 1..Len(min) : ~LeEps(min[k] - max[k])
    THEN Panicked
    ELSE [kind |-> "box", min |-> min, max |-> max, reversed |-> FALSE]
new_reversed(min, max) ==
    IF BoxBounds(min, max) = Panicked THEN Panicked
    ELSE [BoxBounds(min, max) EXCEPT !.reversed = TRUE]
unit_cube(dim) == BoxBounds(Zeros(dim), [k \in 1..dim |-> 1])
centered(half_extents) ==
    BoxBounds([k \in 1..Len(half_extents) |-> -half_extents[k]], half_extents)
\* BoxBounds::expand builds the expanded box with BoxBounds::new
BoxExpand(b, margin) ==
    BoxBounds([k \in 1..Len(b.min) |-> b.min[k] - margin],
              [k \in 1..Len(b.max) |-> b.max[k] + margin])
LinearConstraint(normal, bound) ==
    [kind |-> "linear", normal |-> normal, bound |-> bound,
     normal_norm_sq |-> NormSquared(normal)]
upper_bound(dimension, total_dims, bound) ==
    LinearConstraint([k \in 1..total_dims |-> IF k = dimension THEN 1 ELSE 0], bound)
lower_bound(dimension, total_dims, bound) ==
    LinearConstraint([k \in 1..total_dims |-> IF k = dimension THEN -1 ELSE 0], -bound)

\* Bounds::new: the dimensions must match and min[i] <= max[i]
Bounds(min, max) ==
    IF Len(min) # Len(max) \/ \E k \in 1..Len(min) : ~(min[k] <= max[k])
    THEN Panicked
    ELSE [min |-> min, max |-> max]
\* Bounds::expand: the fields are set without a check
Expand(b, margin) ==
    [min |-> [k \in 1..Len(b.min) |-> b.min[k] - margin],
     max |-> [k \in 1..Len(b.max) |-> b.max[k] + margin]]
CollisionConstraint(obstacle, separation) ==
    [kind |-> "collision", obstacle |-> obstacle, separation |-> separation,
     effective_bounds |-> IF separation > 0 THEN Expand(obstacle, separation)
                          ELSE obstacle]
DiscreteConstraint(allowed) == [kind |-> "discrete", allowed |-> allowed]

\* Option<Bounds>
None == [some |-> FALSE]
Some(b) == [some |-> TRUE, value |-> b]
\* Bounds::intersect
intersect(a, b) ==
    LET min == [k \in 1..Len(a.min) |-> Max(a.min[k], b.min[k])]
        max == [k \in 1..Len(a.max) |-> Min(a.max[k], b.max[k])]
    IN  IF \E k \in 1..Len(min) : min[k] > max[k] THEN None
        ELSE Some([min |-> min, max |-> max])

\* Bounds::contains and BoxBounds::satisfied: the same test
Contains(min, max, p) ==
    \A k \in 1..Len(p) :
        ~(LtNegEps(p[k] - min[k]) \/ GtEps(p[k] - max[k]))

slack(c, p) == Dot(c.normal, p) - c.bound
is_degenerate(c) == is_near_zero(c.normal_norm_sq)

LinearSatisfied(c, p) ==
    IF is_degenerate(c) THEN GeNegEps(c.bound)
    ELSE LeEps(slack(c, p))

CollisionSatisfied(c, p) ==
    ~Contains(c.effective_bounds.min, c.effective_bounds.max, p)

DiscreteSatisfied(c, p) ==
    \E k \in 1..Len(c.allowed) : ApproxEq(p, c.allowed[k])

satisfied(c, p) ==
    CASE c.kind = "box"       -> Contains(c.min, c.max, p)
      [] c.kind = "linear"    -> LinearSatisfied(c, p)
      [] c.kind = "collision" -> CollisionSatisfied(c, p)
      [] c.kind = "discrete"  -> DiscreteSatisfied(c, p)

is_convex(c) == c.kind \in {"box", "linear"}

\* f64::clamp
Clamp(v, lo, hi) == IF v < lo THEN lo ELSE IF v > hi THEN hi ELSE v

\* f64::clamp panics when its min exceeds its max
ClampPanics(lo, hi) == lo > hi

\* the order in which BoxBounds::project visits the dimensions
Indices(c) ==
    IF c.reversed THEN [k \in 1..Len(c.min) |-> Len(c.min) + 1 - k]
    ELSE [k \in 1..Len(c.min) |-> k]

\* BoxBounds::project after the first n dimensions of `indices`
RECURSIVE BoxProjectFrom(_, _, _, _)
BoxProjectFrom(c, result, indices, n) ==
    IF n > Len(indices) THEN result
    ELSE LET i == indices[n]
         IN  IF ClampPanics(c.min[i], c.max[i]) THEN Panicked
             ELSE BoxProjectFrom(c, [result EXCEPT ![i] = Clamp(result[i], c.min[i], c.max[i])],
                                 indices, n + 1)

\* BoxBounds::project
BoxProject(c, p) == BoxProjectFrom(c, p, Indices(c), 1)

\* project panics: a clamp of BoxBounds::project does
ProjectPanics(c) ==
    c.kind = "box" /\ \E k \in 1..Len(c.min) : ClampPanics(c.min[k], c.max[k])

\* LinearConstraint::project
LinearProject(c, p) ==
    IF is_degenerate(c) THEN p
    ELSE IF LeEps(slack(c, p)) THEN p
    ELSE [k \in 1..Len(p) |->
             p[k] - RoundDiv(c.normal[k] * slack(c, p), c.normal_norm_sq)]

\* EPSILON * 100.0, the margin of CollisionConstraint::project: a whole
\* number of ticks on the fine grid only
Margin == 100 * EpsTicks

\* the faces CollisionConstraint::project tries, in its order: for each
\* dimension the point moved to the min face, then to the max face
Faces(e, p) ==
    [n \in 1..(2 * Len(p)) |->
        LET i == (n + 1) \div 2
        IN  [p EXCEPT ![i] = IF n % 2 = 1 THEN e.min[i] - Margin ELSE e.max[i] + Margin]]

\* the first of the faces from the n-th on that is nearer to p than `best`
\* (the moved point differs from p in one coordinate: its distance is exact)
RECURSIVE NearestFace(_, _, _, _)
NearestFace(faces, p, best, n) ==
    IF n > Len(faces) THEN best
    ELSE IF best.none \/ Norm1Diff(p, faces[n]) < Norm1Diff(p, best.proj)
         THEN NearestFace(faces, p, [none |-> FALSE, proj |-> faces[n]], n + 1)
         ELSE NearestFace(faces, p, best, n + 1)

\* CollisionConstraint::project
CollisionProject(c, p) ==
    IF CollisionSatisfied(c, p) THEN p
    ELSE NearestFace(Faces(c.effective_bounds, p), p, [none |-> TRUE, proj |-> p], 1).proj

\* DiscreteConstraint::nearest: Iterator::min_by keeps the first of several
\* minima; squared distances order the points as their distances do
RECURSIVE NearestFrom(_, _, _, _)
NearestFrom(allowed, p, best, n) ==
    IF n > Len(allowed) THEN best
    ELSE IF NormSquared(VSub(p, allowed[n])) < NormSquared(VSub(p, best))
         THEN NearestFrom(allowed, p, allowed[n], n + 1)
         ELSE NearestFrom(allowed, p, best, n + 1)
nearest(c, p) == NearestFrom(c.allowed, p, c.allowed[1], 2)

\* DiscreteConstraint::project
DiscreteProject(c, p) == nearest(c, p)

\* Constraint::project
project(c, p) ==
    CASE c.kind = "box"       -> BoxProject(c, p)
      [] c.kind = "linear"    -> LinearProject(c, p)
      [] c.kind = "collision" -> CollisionProject(c, p)
      [] c.kind = "discrete"  -> DiscreteProject(c, p)

\* ---- Constraint::distance.  A distance is a signed real; the model keeps
\* what it is the root of: sign * norm(vec) / sqrt(den), or an infinity ----
DInf(neg) == [inf |-> TRUE, neg |-> neg, vec |-> <<>>, den |-> 1, eps |-> FALSE]
DRoot(neg, vec, den) == [inf |-> FALSE, neg |-> neg, vec |-> vec, den |-> den, eps |-> FALSE]
\* the value EPSILON itself, where it is not a whole number of ticks
DEps ==
    IF grid = "fine" THEN DRoot(FALSE, <<EpsTicks>>, 1)
    ELSE [inf |-> FALSE, neg |-> FALSE, vec |-> <<>>, den |-> 1, eps |-> TRUE]

DIsZero(d) == ~d.inf /\ ~d.eps /\ NormSquared(d.vec) = 0
DPositive(d) == ~DIsZero(d) /\ ~d.neg
DNegative(d) == ~DIsZero(d) /\ d.neg
\* d > EPSILON
DGtEps(d) ==
    /\ DPositive(d)
    /\ ~d.eps
    /\ d.inf \/ NormSquared(d.vec) > EpsFloor * EpsFloor * d.den

\* Bounds::distance and BoxBounds::distance: the same sum
BoundsDistance(min, max, p) ==
    DRoot(FALSE,
          [k \in 1..Len(p) |-> IF p[k] < min[k] THEN min[k] - p[k]
                               ELSE IF p[k] > max[k] THEN p[k] - max[k]
                               ELSE 0],
          1)

\* LinearConstraint::distance
LinearDistance(c, p) ==
    IF is_degenerate(c) THEN DInf(c.bound >= 0)
    ELSE DRoot(slack(c, p) < 0, <<slack(c, p)>>, c.normal_norm_sq)

\* the smallest of point[i] - min[i] and max[i] - point[i] over the
\* dimensions up to n
RECURSIVE MinDist(_, _, _)
MinDist(e, p, n) ==
    LET here == Min(p[n] - e.min[n], e.max[n] - p[n])
    IN  IF n = 1 THEN here ELSE Min(MinDist(e, p, n - 1), here)

\* CollisionConstraint::distance
CollisionDistance(c, p) ==
    LET e == c.effective_bounds
    IN  IF ~Contains(e.min, e.max, p)
        THEN [BoundsDistance(e.min, e.max, p) EXCEPT !.neg = TRUE]
        ELSE IF LtEps(MinDist(e, p, Len(p))) THEN DEps
             ELSE DRoot(FALSE, <<MinDist(e, p, Len(p))>>, 1)

\* DiscreteConstraint::distance
DiscreteDistance(c, p) ==
    IF NormLt(VSub(p, nearest(c, p)), EpsCeil) THEN DInf(TRUE)
    ELSE DRoot(FALSE, VSub(p, nearest(c, p)), 1)

\* Constraint::distance
distance(c, p) ==
    CASE c.kind = "box"       -> BoundsDistance(c.min, c.max, p)
      [] c.kind = "linear"    -> LinearDistance(c, p)
      [] c.kind = "collision" -> CollisionDistance(c, p)
      [] c.kind = "discrete"  -> DiscreteDistance(c, p)

\* constraints/mod.rs
all_satisfied(cs, p) == \A k \in 1..Len(cs) : satisfied(cs[k], p)
all_convex(cs) == \A k \in 1..Len(cs) : is_convex(cs[k])

---------------------------------------------------------------------------
(* projection/dykstra.rs *)

\* f64::INFINITY as a final_change, and a final_change that is the norm of v
INFINITY == [inf |-> TRUE, vec |-> <<>>]
Change(v) == [inf |-> FALSE, vec |-> v]

\* final_change < TOLERANCE
BelowTolerance(fc) == ~fc.inf /\ NormLt(fc.vec, TolCeil)

DykstraResult(p, n, c, fc) ==
    [point |-> p, iterations |-> n, converged |-> c, final_change |-> fc,
     panicked |-> FALSE]

\* the inner `for (i, constraint)` loop from constraint k on: z = x + y[i],
\* x_new = project(z), y[i] = z - x_new, x = x_new
RECURSIVE DykstraCycle(_, _, _, _)
DykstraCycle(cs, xx, yy, k) ==
    IF k > Len(cs) THEN [x |-> xx, y |-> yy]
    ELSE LET z == VAdd(xx, yy[k])
             x_new == project(cs[k], z)
         IN  DykstraCycle(cs, x_new, [yy EXCEPT ![k] = VSub(z, x_new)], k + 1)

\* a loop that runs one cycle more than the source's
LoopExhaustedLate(n) == n >= MAX_ITERATIONS + 1
\* the `for _ in 0..MAX_ITERATIONS` loop has run n cycles: does it stop?
LoopExhausted(n) == n >= MAX_ITERATIONS

\* project_convex_internal from the loop on, n cycles already done
RECURSIVE DykstraLoop(_, _, _, _)
DykstraLoop(cs, xx, yy, n) ==
    LET r == DykstraCycle(cs, xx, yy, 1)
        fc == Change(VSub(r.x, xx))
    IN  IF BelowTolerance(fc) THEN DykstraResult(r.x, n + 1, TRUE, fc)
        ELSE IF LoopExhausted(n + 1) THEN DykstraResult(r.x, n + 1, FALSE, fc)
        ELSE DykstraLoop(cs, r.x, r.y, n + 1)

\* an early return for the empty list only
EarlyReturnEmptyOnly(cs, p) == Len(cs) = 0
\* the two early returns of project_convex_internal
EarlyReturn(cs, p) == Len(cs) = 0 \/ all_satisfied(cs, p)

project_convex_internal(p, cs) ==
    IF EarlyReturn(cs, p) THEN DykstraResult(p, 0, TRUE, Change(Zeros(Len(p))))
    ELSE IF ~all_convex(cs) THEN Panicked
    ELSE DykstraLoop(cs, p, [k \in 1..Len(cs) |-> Zeros(Len(p))], 0)

project_convex_with_result(p, cs) == project_convex_internal(p, cs)
project_convex(p, cs) == project_convex_internal(p, cs).point

---------------------------------------------------------------------------
(* One call of project_convex_with_result, one cycle of the loop per step *)

\* fine grid: halfspaces with slanted normals through and beside the origin
FineConstraints ==
    { LinearConstraint(<<1, 2>>, 0), LinearConstraint(<<-1, -3>>, 0),
      LinearConstraint(<<-2, -2>>, -FineStep), LinearConstraint(<<-1, 2>>, -FineStep),
      LinearConstraint(<<1, 0>>, 0), LinearConstraint(<<-1, 0>>, -FineStep) }
FinePoints ==
    { <<a * FineStep, b * FineStep>> : a, b \in {-FineSpan, 0, FineSpan} }

\* unit grid: x <= 0 and x >= 1 (contradictory), x <= 2 and x >= 2 (coincident),
\* a box, a degenerate halfspace, and the two non-convex kinds
UnitConstraints ==
    { upper_bound(1, 2, 0), lower_bound(1, 2, 1),
      upper_bound(1, 2, 2), lower_bound(1, 2, 2),
      BoxBounds(<<0, 0>>, <<2, 2>>),
      LinearConstraint(<<0, 0>>, -1),
      CollisionConstraint([min |-> <<0, 0>>, max |-> <<2, 2>>], 0),
      DiscreteConstraint(<<(<<0, 0>>), (<<2, 2>>)>>) }
UnitPoints == { <<a, b>> : a, b \in {-MaxCoord, 0, 1, MaxCoord} }

\* all lists of at most n elements of S
RECURSIVE ListsUpTo(_, _)
ListsUpTo(S, n) ==
    IF n = 0 THEN { <<>> }
    ELSE ListsUpTo(S, n - 1) \cup
         { Append(l, c) : l \in { m \in ListsUpTo(S, n - 1) : Len(m) = n - 1 }, c \in S }

NoResponse == [none |-> TRUE]
NotCalled == [called |-> FALSE, list |-> <<>>]
Returned(l) == [called |-> TRUE, list |-> l]
NoDelta == [vector |-> <<>>, source |-> "", timestamp_us |-> 0]
NoSubject == [type |-> "none", panicked |-> FALSE]
NoCall == [fn |-> "none"]

InitDykstra ==
    /\ grid \in {"fine", "unit"}
    /\ constraints \in ListsUpTo(IF grid = "fine" THEN FineConstraints
                                 ELSE UnitConstraints, MaxConstraints)
    /\ point \in (IF grid = "fine" THEN FinePoints ELSE UnitPoints)
    /\ pc = "idle"
    /\ x = point /\ x_prev = point /\ y = <<>>
    /\ iterations = 0 /\ converged = FALSE /\ final_change = INFINITY
    /\ current = <<>> /\ delta = NoDelta /\ delta2 = NoDelta /\ clock = <<0, 0>>
    /\ response = NoResponse /\ response2 = NoResponse
    /\ rank_intent = <<>> /\ candidates = <<>> /\ valid = NotCalled
    /\ subject = NoSubject /\ call = NoCall /\ recall = NoCall

\* lines 149-163: empty list, or the point already satisfies every constraint
ReturnEarly ==
    /\ pc = "idle"
    /\ EarlyReturn(constraints, point)
    /\ pc' = "done"
    /\ x' = point
    /\ iterations' = 0
    /\ converged' = TRUE
    /\ final_change' = Change(Zeros(Len(point)))
    /\ UNCHANGED <<grid, point, constraints, x_prev, y, suggestVars, probeVars>>

\* lines 165-169: the assert! fails
AssertConvexFails ==
    /\ pc = "idle"
    /\ ~EarlyReturn(constraints, point)
    /\ ~all_convex(constraints)
    /\ pc' = "panic"
    /\ UNCHANGED <<grid, point, constraints, x, x_prev, y, iterations, converged,
                   final_change, suggestVars, probeVars>>

\* lines 171-180: the locals before the loop
EnterLoop ==
    /\ pc = "idle"
    /\ ~EarlyReturn(constraints, point)
    /\ all_convex(constraints)
    /\ pc' = "loop"
    /\ x' = point
    /\ x_prev' = point
    /\ y' = [k \in 1..Len(constraints) |-> Zeros(Len(point))]
    /\ iterations' = 0
    /\ final_change' = INFINITY
    /\ UNCHANGED <<grid, point, constraints, converged, suggestVars, probeVars>>

\* lines 182-216: one pass of the outer loop, and the return after the last
Cycle ==
    /\ pc = "loop"
    /\ LET r == DykstraCycle(constraints, x, y, 1)
           fc == Change(VSub(r.x, x))
       IN  /\ x_prev' = x
           /\ iterations' = iterations + 1
           /\ x' = r.x
           /\ y' = r.y
           /\ final_change' = fc
           /\ IF BelowTolerance(fc)
              THEN pc' = "done" /\ converged' = TRUE
              ELSE IF LoopExhausted(iterations + 1)
                   THEN pc' = "done" /\ converged' = FALSE
                   ELSE pc' = "loop" /\ converged' = FALSE
    /\ UNCHANGED <<grid, point, constraints, suggestVars, probeVars>>

NextDykstra == ReturnEarly \/ AssertConvexFails \/ EnterLoop \/ Cycle

SpecDykstra == InitDykstra /\ [][NextDykstra]_vars

---------------------------------------------------------------------------
(* Properties of project_convex (SpecDykstra) *)

\* C4: project_convex always terminates: every step of a call that is in its
\* loop completes one more outer cycle, the outer cycle runs at most 100
\* times (the variant 100 - iterations falls with each cycle and never below
\* 0), and the reported iteration count is in 0..100 -- also on contradictory
\* lists such as x <= 0, x >= 1.
C4_Terminates ==
    /\ [](iterations \in 0..100)
    /\ [](pc = "loop" => iterations < 100)
    /\ [][pc = "loop" => /\ iterations' = iterations + 1
                         /\ pc' \in {"loop", "done"}]_vars
\* a call that used all 100 cycles and returned without converging
C4_Witness == pc = "done" /\ iterations = 100 /\ ~converged

\* C9: project_convex_with_result takes the early exit (point unchanged,
\* converged, 0 iterations, final_change 0) exactly when the list is empty or
\* the point already satisfies every constraint; every other call that
\* returns reports at least one iteration.
C9_EarlyExit ==
    pc = "done" =>
        IF Len(constraints) = 0 \/ all_satisfied(constraints, point)
        THEN /\ x = point
             /\ converged
             /\ iterations = 0
             /\ final_change = Change(Zeros(Len(point)))
        ELSE iterations >= 1
\* a non-empty list whose every constraint the point satisfies: early exit
C9_Witness ==
    /\ pc = "done" /\ iterations = 0
    /\ Len(constraints) > 0 /\ all_satisfied(constraints, point)

\* C10: project_convex panics whenever some constraint of the list has
\* is_convex() = false; it never returns a point for such a list.
C10_PanicsOnNonConvex ==
    (pc # "idle" /\ ~all_convex(constraints)) => pc = "panic"

\* ---- distances on the fine grid: squares there exceed the machine word of
\* the model checker, so a square is kept as <<high, low>> in base 10^6 ----

\* a * a for |a| below 4 * 10^7
BigSquare(a) ==
    LET h == Abs(a) \div 1000
        l == Abs(a) % 1000
        cross == 2 * h * l
        low == (cross % 1000) * 1000 + l * l
    IN  <<h * h + cross \div 1000 + low \div 1000000, low % 1000000>>
BigAdd(a, b) ==
    <<a[1] + b[1] + (a[2] + b[2]) \div 1000000, (a[2] + b[2]) % 1000000>>
BigLe(a, b) == a[1] < b[1] \/ (a[1] = b[1] /\ a[2] <= b[2])

\* norm_squared() of a 2-dimensional vector, as a big number
BigNormSquared(v) == BigAdd(BigSquare(v[1]), BigSquare(v[2]))

\* the largest n in lo..hi with n * n <= sq (lo * lo <= sq is given)
RECURSIVE FloorSqrt(_, _, _)
FloorSqrt(sq, lo, hi) ==
    IF lo >= hi THEN lo
    ELSE LET mid == (lo + hi + 1) \div 2
         IN  IF BigLe(BigSquare(mid), sq) THEN FloorSqrt(sq, mid, hi)
             ELSE FloorSqrt(sq, lo, mid - 1)

\* norm() of a 2-dimensional vector, rounded down to a whole tick
NormFloor(v) == FloorSqrt(BigNormSquared(v), 0, Abs(v[1]) + Abs(v[2]))

\* a.distance(p) <= b.distance(p) + TOLERANCE.  Unit grid: squared distances
\* are small whole numbers, and two different ones have roots further apart
\* than TOLERANCE.  Fine grid: distances rounded down to the tick.
NotFartherThan(a, b, p) ==
    IF grid = "unit"
    THEN NormSquared(VSub(a, p)) <= NormSquared(VSub(b, p))
    ELSE NormFloor(VSub(a, p)) <= NormFloor(VSub(b, p)) + TolCeil

\* sample points of the plane: the grid points of the input range
SamplePoints ==
    IF grid = "fine"
    THEN { <<a * FineStep, b * FineStep>> : a, b \in -FineSpan..FineSpan }
    ELSE { <<a, b>> : a, b \in -MaxCoord..MaxCoord }

\* the intersection of the constraints holds a sample point
NonEmptyIntersection(cs) == \E q \in SamplePoints : all_satisfied(cs, q)

\* C8: for a list of box and halfspace constraints with a non-empty
\* intersection, project_convex returns the nearest point of the
\* intersection: the result satisfies every constraint, and no point of the
\* intersection is closer to the input by more than TOLERANCE.
C8_NearestPoint ==
    (pc = "done" /\ all_convex(constraints) /\ NonEmptyIntersection(constraints))
        => /\ all_satisfied(constraints, x)
           /\ \A q \in SamplePoints :
                 all_satisfied(constraints, q) => NotFartherThan(x, q, point)

\* two halfspaces of the list with opposite normals, a.x <= b1 and
\* a.x >= -b2, whose bands stay apart by more than both tolerances
\* (-b2 > b1 + 2 * EPSILON), or a degenerate halfspace that is vacuously
\* false: no point satisfies the list
Contradictory(cs) ==
    \/ \E i, j \in 1..Len(cs) :
          /\ cs[i].kind = "linear" /\ cs[j].kind = "linear"
          /\ ~is_degenerate(cs[i])
          /\ cs[j].normal = [k \in 1..Len(cs[i].normal) |-> -cs[i].normal[k]]
          /\ cs[i].bound + cs[j].bound < -2 * EpsCeil
    \/ \E i \in 1..Len(cs) :
          /\ cs[i].kind = "linear" /\ is_degenerate(cs[i])
          /\ ~GeNegEps(cs[i].bound)

\* C11: for a convex list with an empty intersection (such as x <= 0 with
\* x >= 1) project_convex_with_result raises no error and returns the last
\* iterate with converged = false after the iteration cap (100 cycles).
C11_ContradictoryNotConverged ==
    (pc # "idle" /\ all_convex(constraints) /\ Contradictory(constraints))
        => /\ pc # "panic"
           /\ pc = "done" => (~converged /\ iterations = MAX_ITERATIONS)

---------------------------------------------------------------------------
(* One value built by a constructor of constraints/ or of Bounds, one call of
   a method on it, and project applied again to what project returned *)

\* fine grid: half of EPSILON, half of TOLERANCE, and a width above both
HalfEps == EpsTicks \div 2
HalfTol == 50 * EpsTicks
FineWidth == 250 * EpsTicks

\* coordinates, margins and bounds of this part
Scalars ==
    IF grid = "fine" THEN {-HalfEps, 0, HalfEps, HalfTol, FineWidth}
    ELSE {-MaxCoord, 0, 1, MaxCoord}
Widest == IF grid = "fine" THEN FineWidth ELSE MaxCoord
\* 1- and 2-dimensional vectors
Vectors == { <<a>> : a \in Scalars } \cup { <<a, b>> : a \in Scalars, b \in {0, Widest} }
VectorsOfDim(n) == { v \in Vectors : Len(v) = n }

\* normals of halfspaces: unit, slanted and degenerate ones
Normals == { <<1>>, <<-1>>, <<0>>, <<1, 0>>, <<-1, -1>>, <<1, 2>>, <<0, 0>> }
\* obstacles with a corner at the origin, and the separations asked of them
Obstacles == { Bounds(Zeros(Len(v)), v) : v \in { w \in Vectors : \A k \in 1..Len(w) : w[k] > 0 } }
Separations == {0, IF grid = "fine" THEN HalfTol ELSE 1}
\* allowed sets of one or two points
AllowedSets ==
    { <<v>> : v \in Vectors } \cup
    { <<u, v>> : u \in { Zeros(1), Zeros(2) }, v \in Vectors }

\* what a constructor returned: the value, or nothing when it panicked
Built(type, value) ==
    IF value = Panicked THEN [type |-> type, panicked |-> TRUE]
    ELSE [type |-> type, panicked |-> FALSE, value |-> value]

InitConstraint ==
    /\ grid \in {"fine", "unit"}
    /\ subject = NoSubject /\ call = NoCall /\ recall = NoCall
    /\ constraints = <<>> /\ point = <<>>
    /\ pc = "off" /\ x = <<>> /\ x_prev = <<>> /\ y = <<>>
    /\ iterations = 0 /\ converged = FALSE /\ final_change = INFINITY
    /\ current = <<>> /\ delta = NoDelta /\ delta2 = NoDelta /\ clock = <<0, 0>>
    /\ response = NoResponse /\ response2 = NoResponse
    /\ rank_intent = <<>> /\ candidates = <<>> /\ valid = NotCalled

\* no call of project_convex is under way, and nothing is built yet
Fresh == pc = "off" /\ subject = NoSubject /\ call = NoCall
Construct(type, value) ==
    /\ Fresh
    /\ subject' = Built(type, value)
    /\ UNCHANGED <<grid, constraints, call, recall, kernelVars, suggestVars>>

\* Bounds::new(min, max)
NewBounds == \E min, max \in Vectors : Construct("Bounds", Bounds(min, max))
\* BoxBounds::new(min, max), BoxBounds::new_reversed(min, max)
NewBoxBounds == \E min, max \in Vectors : Construct("BoxBounds", BoxBounds(min, max))
NewReversed == \E min, max \in Vectors : Construct("BoxBounds", new_reversed(min, max))
\* BoxBounds::unit_cube(dim), BoxBounds::centered(half_extents)
UnitCube == grid = "unit" /\ \E dim \in 1..2 : Construct("BoxBounds", unit_cube(dim))
Centered == \E half_extents \in Vectors : Construct("BoxBounds", centered(half_extents))
\* LinearConstraint::new(normal, bound)
NewLinear ==
    \E normal \in Normals, bound \in Scalars :
        Construct("LinearConstraint", LinearConstraint(normal, bound))
\* CollisionConstraint::new(obstacle, separation)
NewCollision ==
    \E obstacle \in Obstacles, separation \in Separations :
        Construct("CollisionConstraint", CollisionConstraint(obstacle, separation))
\* DiscreteConstraint::new(allowed)
NewDiscrete ==
    \E allowed \in { l \in AllowedSets : \A k \in 1..Len(l) : Len(l[k]) = Len(l[1]) } :
        Construct("DiscreteConstraint", DiscreteConstraint(allowed))

IsConstraint(s) ==
    /\ s.type \in {"BoxBounds", "LinearConstraint", "CollisionConstraint", "DiscreteConstraint"}
    /\ ~s.panicked
\* Constraint::dim
dim(c) ==
    CASE c.kind = "box"       -> Len(c.min)
      [] c.kind = "linear"    -> Len(c.normal)
      [] c.kind = "collision" -> Len(c.obstacle.min)
      [] c.kind = "discrete"  -> Len(c.allowed[1])

Call(record) ==
    /\ call = NoCall
    /\ call' = record
    /\ UNCHANGED <<grid, constraints, subject, recall, kernelVars, suggestVars>>

\* subject.satisfied(p)
CallSatisfied ==
    /\ IsConstraint(subject)
    /\ \E p \in VectorsOfDim(dim(subject.value)) :
          Call([fn |-> "satisfied", point |-> p, result |-> satisfied(subject.value, p)])
\* subject.distance(p)
CallDistance ==
    /\ IsConstraint(subject)
    /\ \E p \in VectorsOfDim(dim(subject.value)) :
          Call([fn |-> "distance", point |-> p, result |-> distance(subject.value, p)])
\* subject.project(p); the margin of CollisionConstraint::project is a whole
\* number of ticks on the fine grid only
CallProject ==
    /\ IsConstraint(subject)
    /\ \E p \in VectorsOfDim(dim(subject.value)) :
          /\ (subject.type = "CollisionConstraint" /\ grid = "unit")
                => satisfied(subject.value, p)
          /\ Call([fn |-> "project", point |-> p,
                   panicked |-> ProjectPanics(subject.value),
                   result |-> IF ProjectPanics(subject.value) THEN <<>>
                              ELSE project(subject.value, p)])
\* subject.expand(margin) of a Bounds or a BoxBounds
CallExpand ==
    /\ subject.type \in {"Bounds", "BoxBounds"} /\ ~subject.panicked
    /\ \E margin \in Scalars :
          Call([fn |-> "expand", margin |-> margin,
                result |-> IF subject.type = "Bounds" THEN Expand(subject.value, margin)
                           ELSE BoxExpand(subject.value, margin)])
\* subject.intersect(other) of two Bounds
CallIntersect ==
    /\ subject.type = "Bounds" /\ ~subject.panicked
    /\ \E min, max \in VectorsOfDim(Len(subject.value.min)) :
          /\ Bounds(min, max) # Panicked
          /\ Call([fn |-> "intersect", other |-> Bounds(min, max),
                   result |-> intersect(subject.value, Bounds(min, max))])
\* subject.project applied to the point the call of project returned
Again ==
    /\ call.fn = "project" /\ ~call.panicked
    /\ recall = NoCall
    /\ recall' = [fn |-> "project", result |-> project(subject.value, call.result)]
    /\ UNCHANGED <<grid, constraints, subject, call, kernelVars, suggestVars>>

NextConstraint ==
    \/ NewBounds \/ NewBoxBounds \/ NewReversed \/ UnitCube \/ Centered
    \/ NewLinear \/ NewCollision \/ NewDiscrete
    \/ CallSatisfied \/ CallDistance \/ CallProject \/ CallExpand \/ CallIntersect
    \/ Again

SpecConstraint == InitConstraint /\ [][NextConstraint]_vars

---------------------------------------------------------------------------
(* Projections applied twice: project of a constraint (above), and
   project_convex called again on the point its first call returned *)

\* project_convex_with_result(x, constraints) after the first call returned x
ProjectAgain ==
    /\ pc = "done" /\ recall = NoCall
    /\ recall' = [fn |-> "project_convex", point |-> point, result |-> x]
    /\ pc' = "idle"
    /\ point' = x
    /\ x_prev' = x /\ y' = <<>>
    /\ iterations' = 0 /\ converged' = FALSE /\ final_change' = INFINITY
    /\ UNCHANGED <<grid, constraints, x, subject, call, suggestVars>>

InitProjection == InitConstraint \/ InitDykstra
NextProjection == NextConstraint \/ NextDykstra \/ ProjectAgain
SpecProjection == InitProjection /\ [][NextProjection]_vars

---------------------------------------------------------------------------
(* Properties of the constraint variants and of Bounds (SpecConstraint,
   SpecProjection) *)

\* the sum of the squares of the first n components of v, as a big number
RECURSIVE BigSumSquares(_, _)
BigSumSquares(v, n) ==
    IF n = 0 THEN <<0, 0>> ELSE BigAdd(BigSumSquares(v, n - 1), BigSquare(v[n]))

\* a.distance(p) > b.distance(p) + TOLERANCE, exactly.  With A and B the
\* squared distances and T the tolerance in ticks that is A - B - T^2 > 0 and
\* (A - B - T^2)^2 > (2T)^2 * B.  On the unit grid the squares are small
\* whole numbers: roots of two different ones lie further apart than T.
FartherByTolerance(a, b, p) ==
    LET A == NormSquared(VSub(a, p))
        B == NormSquared(VSub(b, p))
        D == A - B - TolCeil * TolCeil
    IN  IF grid = "unit" THEN A > B
        ELSE /\ D > 0
             /\ ~BigLe(BigSquare(D),
                       BigSumSquares([k \in 1..Len(p) |-> 2 * TolCeil * (b[k] - p[k])], Len(p)))

\* the same box visited in the other order
Flipped(b) == [b EXCEPT !.reversed = ~b.reversed]

\* C12: for every box built by BoxBounds::new or new_reversed and every point
\* p, project(p) returns a point inside the box, equal to p when p is inside,
\* and nearest: no point q of the box is nearer to p by more than TOLERANCE;
\* the box visited in the other order returns the same point.
C12_BoxProjection ==
    (subject.type = "BoxBounds" /\ ~subject.panicked /\ call.fn = "project")
        => /\ ~call.panicked
           /\ Contains(subject.value.min, subject.value.max, call.result)
           /\ Contains(subject.value.min, subject.value.max, call.point)
                 => ApproxEq(call.result, call.point)
           /\ \A q \in VectorsOfDim(Len(call.point)) :
                 Contains(subject.value.min, subject.value.max, q)
                     => ~FartherByTolerance(call.result, q, call.point)
           /\ project(Flipped(subject.value), call.point) = call.result

\* C13: projection is idempotent for every constraint variant (box,
\* halfspace, collision, discrete set) and for project_convex: the projection
\* of a projected point is the projected point, within TOLERANCE.
C13_Idempotent ==
    /\ recall.fn = "project" => ApproxEq(recall.result, call.result)
    /\ (recall.fn = "project_convex" /\ pc = "done") => ApproxEq(x, recall.result)

\* where p lies with respect to the feasible set of c: the box; the halfspace
\* (everything or nothing when the normal is degenerate); the complement of
\* the obstacle grown by the separation; the allowed points
StrictlyWithin(min, max, p) == \A k \in 1..Len(p) : min[k] < p[k] /\ p[k] < max[k]
Beyond(min, max, p) == \E k \in 1..Len(p) : p[k] < min[k] \/ p[k] > max[k]
Position(c, p) ==
    CASE c.kind = "box" ->
            IF StrictlyWithin(c.min, c.max, p) THEN "inside"
            ELSE IF Beyond(c.min, c.max, p) THEN "outside" ELSE "boundary"
      [] c.kind = "linear" ->
            IF is_degenerate(c) THEN (IF c.bound >= 0 THEN "inside" ELSE "outside")
            ELSE IF slack(c, p) < 0 THEN "inside"
            ELSE IF slack(c, p) > 0 THEN "outside" ELSE "boundary"
      [] c.kind = "collision" ->
            IF Beyond(c.effective_bounds.min, c.effective_bounds.max, p) THEN "inside"
            ELSE IF StrictlyWithin(c.effective_bounds.min, c.effective_bounds.max, p)
                 THEN "outside" ELSE "boundary"
      [] c.kind = "discrete" ->
            IF \E k \in 1..Len(c.allowed) : c.allowed[k] = p THEN "boundary" ELSE "outside"

\* C14: for every constraint variant and every point p, distance(p) is
\* negative when p is strictly inside the feasible set, zero on its boundary
\* and positive outside, and agrees with satisfied(p): distance(p) > EPSILON
\* implies that satisfied(p) is false (so satisfied(p) implies
\* distance(p) <= EPSILON).
C14_SignedDistance ==
    (IsConstraint(subject) /\ call.fn = "distance")
        => /\ Position(subject.value, call.point) = "inside" => DNegative(call.result)
           /\ Position(subject.value, call.point) = "boundary" => DIsZero(call.result)
           /\ Position(subject.value, call.point) = "outside" => DPositive(call.result)
           /\ DGtEps(call.result) => ~satisfied(subject.value, call.point)

\* C15: a halfspace whose normal is degenerate is vacuous for every point p:
\* satisfied(p) is true when b >= 0 and false when b < 0, distance(p) has the
\* matching sign (negative when b >= 0, positive when b < 0), and project(p)
\* returns p unchanged.
C15_DegenerateVacuous ==
    (subject.type = "LinearConstraint" /\ ~subject.panicked
        /\ is_degenerate(subject.value))
        => /\ call.fn = "satisfied" => (call.result <=> subject.value.bound >= 0)
           /\ call.fn = "distance"
                => IF subject.value.bound >= 0 THEN DNegative(call.result)
                   ELSE DPositive(call.result)
           /\ call.fn = "project" => (~call.panicked /\ call.result = call.point)

\* min[i] <= max[i] in every dimension of a box
WellFormed(b) ==
    /\ Len(b.min) = Len(b.max)
    /\ \A k \in 1..Len(b.min) : b.min[k] <= b.max[k]

\* C16: every Bounds and BoxBounds value has min[i] <= max[i] in every
\* dimension: a constructor (new, new_reversed, unit_cube, centered) that
\* returns has returned such a value, and expand and intersect, when they
\* return a box, return such a value.
C16_MinLeMax ==
    /\ (subject.type \in {"Bounds", "BoxBounds"} /\ ~subject.panicked)
            => WellFormed(subject.value)
    /\ call.fn = "expand" => (call.result = Panicked \/ WellFormed(call.result))
    /\ (call.fn = "intersect" /\ call.result.some) => WellFormed(call.result.value)

---------------------------------------------------------------------------
(* primitives.rs, intent.rs: FGState, Delta, IntentVector *)

\* a ratio n / d of whole numbers, in lowest terms
RECURSIVE Gcd(_, _)
Gcd(a, b) == IF b = 0 THEN a ELSE Gcd(b, a % b)
Ratio(n, d) == <<n \div Gcd(n, d), d \div Gcd(n, d)>>
One == Ratio(1, 1)
Zero == Ratio(0, 1)
\* r > 0.9 and r > 0.5
Above09(r) == 10 * r[1] > 9 * r[2]
Above05(r) == 2 * r[1] > r[2]

\* FGState::from_violation for a violation and an effort in ticks.
\* fg = violation / (effort + EPSILON); against the thresholds EPSILON,
\* 1 - EPSILON and 1 + EPSILON (pure numbers) that is:
\*   fg < EPSILON       iff violation = 0
\*   fg < 1 - EPSILON   iff violation < effort + EPSILON
\*   fg < 1 + EPSILON   iff violation <= effort + EPSILON
\* Slack and Finfr carry 1 - fg and fg - 1: the model keeps the two numbers
\* fg is the quotient of.
from_violation(violation, effort) ==
    IF violation = 0 THEN [kind |-> "Valid"]
    ELSE IF violation < effort + EpsFloor
         THEN [kind |-> "Slack", violation |-> violation, effort |-> effort]
    ELSE IF violation <= effort + EpsFloor THEN [kind |-> "Exact"]
    ELSE [kind |-> "Finfr", violation |-> violation, effort |-> effort]

\* FGState::is_valid
is_valid(fg) == fg.kind # "Finfr"

\* Delta::new, Delta::with_source and a Delta with its public fields set
Delta(vector, source, timestamp_us) ==
    [vector |-> vector, source |-> source, timestamp_us |-> timestamp_us]

\* Delta::magnitude, for the 1-dimensional deltas of the pipeline
magnitude(d) == Norm1(d.vector)

\* Vector::normalize of a 1-dimensional vector of norm > EPSILON
Sign(v) == IF v > 0 THEN 1 ELSE IF v < 0 THEN -1 ELSE 0
normalize(v) == <<Sign(v[1])>>

\* an intent whose magnitude grows with the timestamp of the Delta
from_delta_stamped(d) ==
    [direction |-> IF GtEps(magnitude(d)) THEN normalize(d.vector)
                   ELSE Zeros(Len(d.vector)),
     magnitude |-> magnitude(d) + d.timestamp_us,
     weights |-> [k \in 1..Len(d.vector) |-> 1],
     source |-> d.source]
\* IntentVector::from_delta
from_delta(d) ==
    [direction |-> IF GtEps(magnitude(d)) THEN normalize(d.vector)
                   ELSE Zeros(Len(d.vector)),
     magnitude |-> magnitude(d),
     weights |-> [k \in 1..Len(d.vector) |-> 1],
     source |-> d.source]

\* IntentVector::preserved
preserved(intent, original, result) ==
    IF LtEps(intent.magnitude) THEN One
    ELSE LET actual_change == VSub(result, original)
             actual_magnitude == Norm1(actual_change)
             alignment == Dot(intent.direction, normalize(actual_change))
         IN  IF LtEps(actual_magnitude) THEN Zero
             ELSE IF alignment <= 0 THEN Zero
             ELSE IF actual_magnitude >= intent.magnitude THEN One
             ELSE Ratio(actual_magnitude, intent.magnitude)

---------------------------------------------------------------------------
(* candidates.rs *)

\* the first n elements of s
Take(s, n) == SubSeq(s, 1, Min(n, Len(s)))

\* a.distance(intent) < b.distance(intent) on the unit grid: squared
\* distances are whole numbers, and their roots compare the same way
Closer(a, b, intent) ==
    NormSquared(VSub(a, intent)) < NormSquared(VSub(b, intent))

\* a comparator that ignores the distances
RankBeforeLex(a, b, intent) == LexLess(a, b)
\* the comparator of filter_and_rank = Less: distance to intent, then
\* lexicographic_cmp
RankBefore(a, b, intent) ==
    \/ Closer(a, b, intent)
    \/ (~Closer(b, a, intent) /\ LexLess(a, b))

\* slice::sort_by (stable) with the comparator of filter_and_rank
RECURSIVE InsertRanked(_, _, _)
InsertRanked(sorted, e, intent) ==
    IF Len(sorted) = 0 THEN <<e>>
    ELSE IF RankBefore(e, sorted[Len(sorted)], intent)
         THEN Append(InsertRanked(SubSeq(sorted, 1, Len(sorted) - 1), e, intent),
                     sorted[Len(sorted)])
         ELSE Append(sorted, e)
RECURSIVE SortRanked(_, _)
SortRanked(s, intent) ==
    IF Len(s) = 0 THEN <<>>
    ELSE InsertRanked(SortRanked(SubSeq(s, 1, Len(s) - 1), intent), s[Len(s)], intent)

\* slice::sort_by (stable) with lexicographic_cmp
RECURSIVE InsertLex(_, _)
InsertLex(sorted, e) ==
    IF Len(sorted) = 0 THEN <<e>>
    ELSE IF LexLess(e, sorted[Len(sorted)])
         THEN Append(InsertLex(SubSeq(sorted, 1, Len(sorted) - 1), e), sorted[Len(sorted)])
         ELSE Append(sorted, e)
RECURSIVE SortLex(_)
SortLex(s) ==
    IF Len(s) = 0 THEN <<>> ELSE InsertLex(SortLex(SubSeq(s, 1, Len(s) - 1)), s[Len(s)])

\* Iterator::filter
RECURSIVE FilterSatisfied(_, _)
FilterSatisfied(s, cs) ==
    IF Len(s) = 0 THEN <<>>
    ELSE LET rest == FilterSatisfied(SubSeq(s, 1, Len(s) - 1), cs)
         IN  IF all_satisfied(cs, s[Len(s)]) THEN Append(rest, s[Len(s)]) ELSE rest

generate_shell_1d(center, radius) == << <<center[1] - radius>>, <<center[1] + radius>> >>

\* Iterator::filter with bounds.map_or(true, |b| b.contains(p))
RECURSIVE FilterContained(_, _)
FilterContained(s, bounds) ==
    IF Len(s) = 0 THEN <<>>
    ELSE LET rest == FilterContained(SubSeq(s, 1, Len(s) - 1), bounds)
             p == s[Len(s)]
         IN  IF bounds.some => Contains(bounds.value.min, bounds.value.max, p)
             THEN Append(rest, p) ELSE rest

\* the valid points of the k-th shell of local_search, sorted lexicographically
Shell(center, bounds, k) ==
    SortLex(FilterContained(generate_shell_1d(center, SHELL_RADII[k]), bounds))
\* the shells of local_search from the k-th radius on
RECURSIVE Shells(_, _, _)
Shells(center, bounds, k) ==
    IF k > Len(SHELL_RADII) THEN <<>>
    ELSE Shell(center, bounds, k) \o Shells(center, bounds, k + 1)

\* a search that pushes every valid point of every shell
local_search_all_shells(center, bounds, existing_candidates) ==
    IF MAX_CANDIDATES - existing_candidates <= 0 THEN <<>>
    ELSE Shells(center, bounds, 1)
\* local_search(center, bounds, existing_candidates) for a 1-dimensional
\* center: points are pushed shell by shell until remaining_quota of them
\* are there
local_search(center, bounds, existing_candidates) ==
    LET remaining_quota == Max(MAX_CANDIDATES - existing_candidates, 0)
    IN  Take(Shells(center, bounds, 1), remaining_quota)

filter_and_rank(cands, cs, intent) ==
    SortRanked(FilterSatisfied(cands, cs), intent)

---------------------------------------------------------------------------
(* aida.rs *)

Suggestion(state, fg_state, intent_preserved, explanation) ==
    [state |-> state, fg_state |-> fg_state,
     intent_preserved |-> intent_preserved, explanation |-> explanation]

\* SearchStats::default() with elapsed_us set
SearchStats(generated, verified, elapsed_us) ==
    [candidates_generated |-> generated, candidates_verified |-> verified,
     iterations_used |-> 0, elapsed_us |-> elapsed_us]

AidAResponse(suggestions, quality, stats) ==
    [suggestions |-> suggestions, quality |-> quality, search_stats |-> stats]

\* the quality rule of suggest_convex
ConvexQuality(fg_state, intent_preserved) ==
    IF is_valid(fg_state) /\ Above09(intent_preserved) THEN "Exact"
    ELSE IF Above05(intent_preserved) THEN "Near"
    ELSE "Relaxed"

\* a rule that never answers Exact
NonconvexQualityNeverExact(best_preserved) ==
    IF Above05(best_preserved) THEN "Near" ELSE "Relaxed"
\* the quality rule of suggest_nonconvex
NonconvexQuality(best_preserved) ==
    IF Above09(best_preserved) THEN "Exact"
    ELSE IF Above05(best_preserved) THEN "Near"
    ELSE "Relaxed"

suggest_convex(cur, intended, intent, cs, elapsed) ==
    LET projected == project_convex(intended, cs)
        violation == Norm1(VSub(intended, projected))
        fg_state == from_violation(violation, intent.magnitude)
        intent_preserved == preserved(intent, cur, projected)
        explanation == IF ApproxEq(projected, intended) THEN "adjusted" ELSE "moved"
    IN  AidAResponse(<<Suggestion(projected, fg_state, intent_preserved, explanation)>>,
                     ConvexQuality(fg_state, intent_preserved),
                     SearchStats(0, 1, elapsed))

\* the convex constraints of the list, in order
RECURSIVE ConvexOnly(_)
ConvexOnly(cs) ==
    IF Len(cs) = 0 THEN <<>>
    ELSE LET rest == ConvexOnly(SubSeq(cs, 1, Len(cs) - 1))
         IN  IF is_convex(cs[Len(cs)]) THEN Append(rest, cs[Len(cs)]) ELSE rest

\* suggest_nonconvex: the starting point of the search
Center(intended, cs) ==
    IF Len(ConvexOnly(cs)) = 0 THEN intended
    ELSE project_convex(intended, ConvexOnly(cs))

\* suggest_nonconvex: the candidate list
Candidates(center) == <<center>> \o local_search(center, None, 1)

\* one suggestion more than the source takes
TakeLimitSix == 5 + 1
\* suggest_nonconvex: how many of the ranked candidates become suggestions
TakeLimit == 5

suggest_nonconvex(cur, intended, intent, cs, elapsed) ==
    LET center == Center(intended, cs)
        cands == Candidates(center)
        valid_candidates == filter_and_rank(cands, cs, intended)
        top == Take(valid_candidates, TakeLimit)
        suggestions ==
            [k \in 1..Len(top) |->
                Suggestion(top[k],
                           from_violation(Norm1(VSub(intended, top[k])), intent.magnitude),
                           preserved(intent, cur, top[k]),
                           "valid_position")]
    IN  IF Len(valid_candidates) = 0
        THEN AidAResponse(
                 <<Suggestion(center,
                              from_violation(Norm1(VSub(intended, center)), intent.magnitude),
                              preserved(intent, cur, center),
                              "fallback")>>,
                 "Relaxed",
                 SearchStats(Len(cands), 0, elapsed))
        ELSE AidAResponse(suggestions,
                          NonconvexQuality(suggestions[1].intent_preserved),
                          SearchStats(Len(cands), Len(valid_candidates), elapsed))

\* a test for the empty list only
TriviallyValidEmptyOnly(cs, intended) == Len(cs) = 0
\* suggest: the test that the intended state is already valid
TriviallyValid(cs, intended) == Len(cs) = 0 \/ all_satisfied(cs, intended)

\* suggest; elapsed is the difference of the two clock readings of the path
suggest(cur, d, cs, elapsed) ==
    LET intended == VAdd(cur, d.vector)
        intent == from_delta(d)
    IN  IF TriviallyValid(cs, intended)
        THEN AidAResponse(<<Suggestion(intended, [kind |-> "Valid"], One,
                                       "intended_valid")>>,
                          "Exact", SearchStats(0, 0, elapsed))
        ELSE IF all_convex(cs)
             THEN suggest_convex(cur, intended, intent, cs, elapsed)
             ELSE suggest_nonconvex(cur, intended, intent, cs, elapsed)

---------------------------------------------------------------------------
(* The library called on 1-dimensional states of the unit grid: suggest,
   suggest again on the same current, delta.vector and constraints, or
   filter_and_rank on a candidate list *)

\* a box, a contradictory pair of halfspaces (x <= 0, x >= 1), an obstacle and
\* a discrete set
SuggestConstraints ==
    { BoxBounds(<<0>>, <<2>>),
      upper_bound(1, 1, 0), lower_bound(1, 1, 1),
      CollisionConstraint([min |-> <<-1>>, max |-> <<2>>], 0),
      DiscreteConstraint(<< <<0>>, <<5>> >>) }

\* the collision scenario scaled to one dimension: box [0, 100], obstacle
\* [40, 60], current 30, delta 20
ScenarioConstraints ==
    << BoxBounds(<<0>>, <<100>>),
       CollisionConstraint([min |-> <<40>>, max |-> <<60>>], 0) >>

\* (current, delta.vector): small states and moves, and the scenario's
SuggestInputs ==
    { <<(<<c>>), (<<d>>)>> : c \in -MaxCurrent..MaxCurrent, d \in -MaxCoord..MaxCoord }
        \cup { <<(<<30>>), (<<20>>)>> }

Sources == {"None", "drag"}

\* arguments of filter_and_rank: an intent and a list of points around it, in
\* any order
RankIntents == { <<0>>, <<1>> }
RankInputs(intent) ==
    ListsUpTo({ <<intent[1] - 1>>, <<intent[1] + 1>>, <<intent[1] + 2>> }, MaxCandidates)

Init ==
    /\ grid = "unit"
    /\ constraints \in ListsUpTo(SuggestConstraints, MaxConstraints)
                           \cup {ScenarioConstraints}
    /\ current = <<>> /\ delta = NoDelta /\ delta2 = NoDelta
    /\ clock = <<0, 0>>
    /\ response = NoResponse /\ response2 = NoResponse
    /\ rank_intent = <<>> /\ candidates = <<>> /\ valid = NotCalled
    /\ subject = NoSubject /\ call = NoCall /\ recall = NoCall
    /\ pc = "idle" /\ point = <<>> /\ x = <<>> /\ x_prev = <<>> /\ y = <<>>
    /\ iterations = 0 /\ converged = FALSE /\ final_change = INFINITY

\* suggest(current, Delta::new(vector), constraints); both clock reads of the
\* call fall into the same microsecond
Suggest ==
    /\ response = NoResponse /\ ~valid.called
    /\ \E in \in SuggestInputs :
          /\ current' = in[1]
          /\ delta' = Delta(in[2], "None", 0)
          /\ response' = suggest(in[1], delta', constraints, 0)
    /\ UNCHANGED <<grid, constraints, delta2, clock, response2, rank_intent,
                   candidates, valid, kernelVars, probeVars>>

\* a second call with the same current, delta.vector and constraints; the
\* caller has set another source and another timestamp in the Delta, and the
\* clock advances by `elapsed` between the two reads
SuggestAgain ==
    /\ response # NoResponse /\ response2 = NoResponse
    /\ \E source \in Sources \ {delta.source},
          timestamp_us \in 1..MaxClock, elapsed \in 1..MaxClock :
          /\ delta2' = Delta(delta.vector, source, timestamp_us)
          /\ clock' = <<clock[1], elapsed>>
          /\ response2' = suggest(current, delta2', constraints, elapsed)
    /\ UNCHANGED <<grid, constraints, current, delta, response, rank_intent,
                   candidates, valid, kernelVars, probeVars>>

\* filter_and_rank(candidates, constraints, intent)
FilterAndRank ==
    /\ response = NoResponse /\ ~valid.called
    /\ \E intent \in RankIntents :
          \E cands \in RankInputs(intent) :
             /\ rank_intent' = intent
             /\ candidates' = cands
             /\ valid' = Returned(filter_and_rank(cands, constraints, intent))
    /\ UNCHANGED <<grid, constraints, current, delta, delta2, clock, response,
                   response2, kernelVars, probeVars>>

Next == Suggest \/ SuggestAgain \/ FilterAndRank

Spec == Init /\ [][Next]_vars

---------------------------------------------------------------------------
(* Properties of suggest and filter_and_rank (Spec) *)

\* the responses returned so far
Responses == { r \in {response, response2} : r # NoResponse }

\* current + delta.vector of the calls made
Intended == VAdd(current, delta.vector)

\* the path a call on the state's arguments takes
OnTrivialPath == Len(constraints) = 0 \/ all_satisfied(constraints, Intended)
OnConvexPath == ~OnTrivialPath /\ all_convex(constraints)
OnNonconvexPath == ~OnTrivialPath /\ ~all_convex(constraints)

\* the candidates of the nonconvex path that satisfy every constraint
Survivors ==
    LET cands == Candidates(Center(Intended, constraints))
    IN  { p \in { cands[k] : k \in 1..Len(cands) } : all_satisfied(constraints, p) }

\* the states of a response's suggestions, in order
States(r) == [k \in 1..Len(r.suggestions) |-> r.suggestions[k].state]

\* C1: every suggestion state returned by suggest satisfies every constraint
\* of the list, on every path (trivially valid, convex projection, nonconvex
\* candidates, nonconvex fallback); with a box and a collision obstacle and
\* the intended state inside the obstacle, every suggestion is outside it.
C1_SuggestionsValid ==
    \A r \in Responses :
        \A k \in 1..Len(r.suggestions) :
            all_satisfied(constraints, r.suggestions[k].state)

\* C2: suggest returns at least one suggestion for every input: exactly one
\* on the trivially-valid path, exactly one on the all-convex path, exactly
\* one (at the center) on the nonconvex fallback, and between 1 and 5 when
\* nonconvex candidates survive.
C2_AtLeastOne ==
    Responses # {} =>
        LET survivors == IF OnNonconvexPath THEN Survivors ELSE {}
        IN  \A r \in Responses :
               /\ Len(r.suggestions) >= 1
               /\ OnTrivialPath => Len(r.suggestions) = 1
               /\ OnConvexPath => Len(r.suggestions) = 1
               /\ (OnNonconvexPath /\ survivors = {}) =>
                     /\ Len(r.suggestions) = 1
                     /\ r.suggestions[1].state = Center(Intended, constraints)
               /\ (OnNonconvexPath /\ survivors # {}) => Len(r.suggestions) \in 1..5
\* more than 5 candidates survive, 5 are returned
C2_Witness ==
    /\ response # NoResponse
    /\ OnNonconvexPath /\ Cardinality(Survivors) > 5
    /\ Len(response.suggestions) = 5

\* C3: two runs of suggest on identical (current, delta.vector, constraints)
\* return lists of the same length with identical states, FGState and
\* preservation values and the same quality label, whatever the clock
\* readings, delta.timestamp_us and delta.source of the runs.
C3_Deterministic ==
    response2 # NoResponse =>
        /\ Len(response2.suggestions) = Len(response.suggestions)
        /\ \A k \in 1..Len(response.suggestions) :
              /\ response2.suggestions[k].state = response.suggestions[k].state
              /\ response2.suggestions[k].fg_state = response.suggestions[k].fg_state
              /\ response2.suggestions[k].intent_preserved
                    = response.suggestions[k].intent_preserved
        /\ response2.quality = response.quality
\* a second run with another source, timestamp and clock advance, on the
\* nonconvex path with several suggestions
C3_Witness ==
    /\ response2 # NoResponse
    /\ delta2.source # delta.source
    /\ delta2.timestamp_us # delta.timestamp_us
    /\ clock[2] # clock[1]
    /\ Len(response2.suggestions) > 1

\* C5: when the list is empty or intended = current + delta.vector satisfies
\* every constraint, suggest returns quality Exact with a single suggestion at
\* intended, FGState Valid, intent_preserved 1.0, iterations_used 0, and runs
\* neither the projection nor the candidate generation (no candidate is
\* counted as generated or verified).
C5_TriviallyValid ==
    \A r \in Responses :
        (Len(constraints) = 0 \/ all_satisfied(constraints, Intended)) =>
            /\ r.quality = "Exact"
            /\ Len(r.suggestions) = 1
            /\ r.suggestions[1].state = Intended
            /\ r.suggestions[1].fg_state = [kind |-> "Valid"]
            /\ r.suggestions[1].intent_preserved = One
            /\ r.search_stats.iterations_used = 0
            /\ r.search_stats.candidates_generated = 0
            /\ r.search_stats.candidates_verified = 0
\* a non-empty list that the intended state satisfies, after a real move
C5_Witness ==
    /\ response # NoResponse
    /\ Len(constraints) > 0 /\ all_satisfied(constraints, Intended)
    /\ delta.vector # <<0>>

\* the quality rule as the convex path has it
RuleWithFGState(fg_state, intent_preserved) ==
    IF fg_state.kind # "Finfr" /\ Above09(intent_preserved) THEN "Exact"
    ELSE IF Above05(intent_preserved) THEN "Near"
    ELSE "Relaxed"
\* the quality rule on the preservation alone
RuleOnPreservation(intent_preserved) ==
    IF Above09(intent_preserved) THEN "Exact"
    ELSE IF Above05(intent_preserved) THEN "Near"
    ELSE "Relaxed"

\* C6 (as claimed): a response that is not trivially valid gets its quality
\* label by one rule on the convex path and on the nonconvex path with
\* surviving candidates: Exact if the best suggestion's FGState is valid (not
\* Finfr) and its preservation > 0.9; otherwise Near if preservation > 0.5;
\* otherwise Relaxed.
C6_OneQualityRule ==
    Responses # {} =>
        LET survive == OnNonconvexPath /\ Survivors # {}
        IN  \A r \in Responses :
               (OnConvexPath \/ survive) =>
                   r.quality = RuleWithFGState(r.suggestions[1].fg_state,
                                               r.suggestions[1].intent_preserved)

\* C6 (amended): on the convex path the label is Exact if the suggestion's
\* FGState is valid and its preservation > 0.9, otherwise Near if
\* preservation > 0.5, otherwise Relaxed; on the nonconvex path with
\* surviving candidates the label depends on the best preservation alone:
\* Exact if > 0.9 (also when the best suggestion's FGState is Finfr), Near if
\* > 0.5, otherwise Relaxed.
C6_QualityRules ==
    Responses # {} =>
        LET survive == OnNonconvexPath /\ Survivors # {}
        IN  \A r \in Responses :
               /\ OnConvexPath =>
                     r.quality = RuleWithFGState(r.suggestions[1].fg_state,
                                                 r.suggestions[1].intent_preserved)
               /\ survive =>
                     r.quality = RuleOnPreservation(r.suggestions[1].intent_preserved)
\* the nonconvex path labels a response Exact whose best suggestion is Finfr
C6_Witness ==
    /\ response # NoResponse
    /\ OnNonconvexPath /\ Survivors # {}
    /\ response.suggestions[1].fg_state.kind = "Finfr"
    /\ response.quality = "Exact"

\* how often p occurs in the list s
Occurrences(s, p) == Cardinality({ k \in 1..Len(s) : s[k] = p })

\* out holds exactly the elements of in that satisfy every constraint of cs,
\* by non-decreasing distance to intent, equal distances in lexicographic order
IsFilteredAndRanked(out, in, cs, intent) ==
    /\ \A k \in 1..Len(out) : all_satisfied(cs, out[k])
    /\ \A k \in 1..Len(in) :
          all_satisfied(cs, in[k]) => Occurrences(out, in[k]) = Occurrences(in, in[k])
    /\ \A k \in 1..Len(out) : Occurrences(in, out[k]) > 0
    /\ \A j, k \in 1..Len(out) :
          j < k =>
             /\ NormSquared(VSub(out[j], intent)) <= NormSquared(VSub(out[k], intent))
             /\ NormSquared(VSub(out[j], intent)) = NormSquared(VSub(out[k], intent))
                   => ~LexLess(out[k], out[j])

\* C7: filter_and_rank returns exactly the input candidates that satisfy
\* every constraint of the full list, by non-decreasing Euclidean distance to
\* the intended state (not the center), equal distances in lexicographic
\* order; the nonconvex path of suggest emits the first 5 of this order.
C7_FilterAndRank ==
    /\ valid.called =>
          IsFilteredAndRanked(valid.list, candidates, constraints, rank_intent)
    /\ (Responses # {} /\ OnNonconvexPath) =>
          LET cands == Candidates(Center(Intended, constraints))
              ranked == filter_and_rank(cands, constraints, Intended)
          IN  /\ IsFilteredAndRanked(ranked, cands, constraints, Intended)
              /\ Len(ranked) > 0 =>
                    \A r \in Responses :
                        States(r) = SubSeq(ranked, 1, Min(5, Len(ranked)))
\* two candidates at the same distance, given in descending order, come back
\* in lexicographic order behind a nearer one that was given last
C7_Witness ==
    /\ valid.called
    /\ Len(candidates) = 3 /\ Len(valid.list) = 3
    /\ candidates[1] = <<rank_intent[1] + 2>>
    /\ candidates[2] = <<rank_intent[1] + 1>>
    /\ candidates[3] = <<rank_intent[1] - 1>>
    /\ valid.list = << <<rank_intent[1] - 1>>, <<rank_intent[1] + 1>>,
                       <<rank_intent[1] + 2>> >>

---------------------------------------------------------------------------
(* f64 arithmetic, bit for bit: the operations of linalg.rs and intent.rs on
   vectors of whole numbers, each rounded to the nearest binary64 *)

\* whole numbers of any size: the limbs of base LimbBase, lowest first, the
\* highest not 0
LimbBase == 32768
LimbBits == 15
\* limb k of a, 0 beyond its length
LLimb(a, k) == IF k >= 1 /\ k <= Len(a) THEN a[k] ELSE 0
LTrim(a) ==
    IF Len(a) = 0 \/ \A k \in 1..Len(a) : a[k] = 0 THEN <<>>
    ELSE SubSeq(a, 1, CHOOSE k \in 1..Len(a) :
                          a[k] # 0 /\ \A j \in (k + 1)..Len(a) : a[j] = 0)
\* a number below LimbBase^3
LFromInt(n) ==
    LTrim(<<n % LimbBase, (n \div LimbBase) % LimbBase, n \div (LimbBase * LimbBase)>>)
\* the carry into limb k of a + b: some limb below k overflows and every limb
\* between passes the carry on
LAddCarry(a, b, k) ==
    \E j \in 1..(k - 1) :
        /\ LLimb(a, j) + LLimb(b, j) >= LimbBase
        /\ \A i \in (j + 1)..(k - 1) : LLimb(a, i) + LLimb(b, i) = LimbBase - 1
LAdd(a, b) ==
    IF Len(a) = 0 THEN LTrim(b)
    ELSE IF Len(b) = 0 THEN LTrim(a)
    ELSE
    LTrim(SubSeq([k \in 1..(Max(Len(a), Len(b)) + 1) |->
                      (LLimb(a, k) + LLimb(b, k)
                       + (IF LAddCarry(a, b, k) THEN 1 ELSE 0)) % LimbBase],
                 1, Max(Len(a), Len(b)) + 1))
\* a - b for a >= b: the borrow from limb k
LSubBorrow(a, b, k) ==
    \E j \in 1..(k - 1) :
        /\ LLimb(a, j) < LLimb(b, j)
        /\ \A i \in (j + 1)..(k - 1) : LLimb(a, i) = LLimb(b, i)
LSub(a, b) ==
    IF Len(b) = 0 \/ Len(a) = 0 THEN LTrim(a)
    ELSE
    LTrim(SubSeq([k \in 1..Len(a) |->
                      (LLimb(a, k) - LLimb(b, k)
                       - (IF LSubBorrow(a, b, k) THEN 1 ELSE 0) + LimbBase) % LimbBase],
                 1, Len(a)))
\* -1, 0, 1 as a < b, a = b, a > b: the highest limb that differs decides
LCmpFrom(a, b, k) == IF a[k] < b[k] THEN -1 ELSE 1
LCmp(a, b) ==
    IF Len(a) < Len(b) THEN -1
    ELSE IF Len(a) > Len(b) THEN 1
    ELSE IF a = b THEN 0
    ELSE LCmpFrom(a, b, CHOOSE k \in 1..Len(a) :
                            a[k] # b[k] /\ \A j \in (k + 1)..Len(a) : a[j] = b[j])
LZeros(n) == SubSeq([k \in 1..n |-> 0], 1, n)
\* a * 2^n and floor(a / 2^n)
LShl(a, n) ==
    IF Len(a) = 0 \/ n = 0 THEN LTrim(a)
    ELSE
    LTrim(SubSeq([k \in 1..(Len(a) + n \div LimbBits + 1) |->
                      ((LLimb(a, k - n \div LimbBits) * (2 ^ (n % LimbBits))) % LimbBase)
                      + LLimb(a, k - n \div LimbBits - 1)
                            \div (2 ^ (LimbBits - (n % LimbBits)))],
                 1, Len(a) + n \div LimbBits + 1))
LShr(a, n) ==
    IF Len(a) = 0 \/ n = 0 THEN LTrim(a)
    ELSE
    LTrim(SubSeq([k \in 1..Len(a) |->
                      LLimb(a, k + n \div LimbBits) \div (2 ^ (n % LimbBits))
                      + (LLimb(a, k + n \div LimbBits + 1) % (2 ^ (n % LimbBits)))
                            * (2 ^ (LimbBits - (n % LimbBits)))],
                 1, Len(a)))
LPow2(n) == LShl(<<1>>, n)
\* a * b for b of at most four limbs.  LMulColumn: the sum of the low halves
\* of the products of limbs that belong to limb k and of the high halves of
\* those that belong to limb k - 1 (less than 8 * LimbBase)
LMulHalves(a, b, k, j) ==
    ((LLimb(a, k + 1 - j) * LLimb(b, j)) % LimbBase)
    + ((LLimb(a, k - j) * LLimb(b, j)) \div LimbBase)
LMulColumn(a, b, k) ==
    LMulHalves(a, b, k, 1) + LMulHalves(a, b, k, 2)
    + LMulHalves(a, b, k, 3) + LMulHalves(a, b, k, 4)
LMulSmall(a, b) ==
    LAdd(SubSeq([k \in 1..(Len(a) + 4) |-> LMulColumn(a, b, k) % LimbBase],
                1, Len(a) + 4),
         SubSeq([k \in 1..(Len(a) + 5) |-> LMulColumn(a, b, k - 1) \div LimbBase],
                1, Len(a) + 5))
\* a * b, four limbs of b at a time
RECURSIVE LMul(_, _)
LMul(a, b) ==
    IF Len(b) = 0 \/ Len(a) = 0 THEN <<>>
    ELSE IF Len(b) <= 4 THEN LMulSmall(a, b)
    ELSE LAdd(LMulSmall(a, SubSeq(b, 1, 4)),
              LZeros(4) \o LMul(a, SubSeq(b, 5, Len(b))))
\* the number of binary digits
BitsOf(n) == CHOOSE k \in 0..LimbBits : 2 ^ k > n /\ (k = 0 \/ 2 ^ (k - 1) <= n)
LBits(a) == IF Len(a) = 0 THEN 0 ELSE LimbBits * (Len(a) - 1) + BitsOf(a[Len(a)])
LIsOdd(a) == Len(a) > 0 /\ a[1] % 2 = 1
\* one binary digit of a quotient or a root: the candidate c, which has the
\* digit, replaces st.q unless it is too large (s > 0), and is exact if s = 0
LAccept(st, c, s) == IF s > 0 THEN st ELSE [q |-> c, exact |-> s = 0]
\* floor(a / d) for d > 0, one binary digit per step: digit k of the
\* quotient q found so far, which is exact when q * d = a
LDivTry(a, d, st, c) == LAccept(st, c, LCmp(LMul(c, d), a))
LDivDigit(a, d, st, k) ==
    IF st.exact THEN st ELSE LDivTry(a, d, st, LAdd(st.q, LPow2(k)))
\* the digits hi down to lo
RECURSIVE LDivDigits(_, _, _, _, _)
LDivDigits(a, d, st, hi, lo) ==
    IF hi = lo THEN LDivDigit(a, d, st, hi)
    ELSE LET upper == LDivDigits(a, d, st, hi, (hi + lo) \div 2 + 1)
         IN  IF upper.exact THEN upper
             ELSE LDivDigits(a, d, upper, (hi + lo) \div 2, lo)
LDiv(a, d) ==
    LDivDigits(a, d, [q |-> <<>>, exact |-> Len(a) = 0],
               Max(LBits(a) - LBits(d), 0), 0)
\* floor(sqrt(n)), one binary digit per step, in the same way
LSqrtTry(n, st, c) == LAccept(st, c, LCmp(LMul(c, c), n))
LSqrtDigit(n, st, k) ==
    IF st.exact THEN st ELSE LSqrtTry(n, st, LAdd(st.q, LPow2(k)))
RECURSIVE LSqrtDigits(_, _, _, _)
LSqrtDigits(n, st, hi, lo) ==
    IF hi = lo THEN LSqrtDigit(n, st, hi)
    ELSE LET upper == LSqrtDigits(n, st, hi, (hi + lo) \div 2 + 1)
         IN  IF upper.exact THEN upper
             ELSE LSqrtDigits(n, upper, (hi + lo) \div 2, lo)
LSqrt(n) ==
    LSqrtDigits(n, [q |-> <<>>, exact |-> Len(n) = 0], LBits(n) \div 2, 0)

\* f64: a finite binary64 number is (-1)^neg * m * 2^e with m = 0 or
\* 2^52 <= m < 2^53 (the numbers of this model are far from the subnormal
\* and the overflow range)
MantissaBits == 53
FZero == [neg |-> FALSE, m |-> <<>>, e |-> 0]
FIsZero(a) == Len(a.m) = 0
\* round to nearest, ties to even: the binary64 nearest to
\* (-1)^neg * (n + f) * 2^e, where 0 < f < 1 if sticky and f = 0 if not
\* (n has more than MantissaBits digits when sticky)
FRound(neg, n, e, sticky) ==
    IF Len(n) = 0 THEN FZero
    ELSE IF LBits(n) <= MantissaBits
         THEN [neg |-> neg, m |-> LShl(n, MantissaBits - LBits(n)),
               e |-> e - (MantissaBits - LBits(n))]
    ELSE LET s == LBits(n) - MantissaBits
             q == LShr(n, s)
             c == LCmp(LSub(n, LShl(q, s)), LPow2(s - 1))
             up == c > 0 \/ (c = 0 /\ (sticky \/ LIsOdd(q)))
             r == IF up THEN LAdd(q, <<1>>) ELSE q
         IN  IF LBits(r) > MantissaBits
             THEN [neg |-> neg, m |-> LShr(r, 1), e |-> e + s + 1]
             ELSE [neg |-> neg, m |-> r, e |-> e + s]
\* a whole number as f64
FFromInt(n) == FRound(n < 0, LFromInt(Abs(n)), 0, FALSE)
FOne == FFromInt(1)
\* a * b
FMul(a, b) ==
    IF FIsZero(a) \/ FIsZero(b) THEN FZero
    ELSE FRound(a.neg # b.neg, LMul(a.m, b.m), a.e + b.e, FALSE)
\* a + b
FAdd(a, b) ==
    IF FIsZero(a) THEN b
    ELSE IF FIsZero(b) THEN a
    ELSE LET e == Min(a.e, b.e)
             am == LShl(a.m, a.e - e)
             bm == LShl(b.m, b.e - e)
         IN  IF a.neg = b.neg THEN FRound(a.neg, LAdd(am, bm), e, FALSE)
             ELSE IF LCmp(am, bm) >= 0 THEN FRound(a.neg, LSub(am, bm), e, FALSE)
             ELSE FRound(b.neg, LSub(bm, am), e, FALSE)
FNeg(a) == IF FIsZero(a) THEN a ELSE [a EXCEPT !.neg = ~a.neg]
FSub(a, b) == FAdd(a, FNeg(b))
\* a / b for b # 0: the quotient to three digits more than the mantissa
GuardBits == 3
FDiv(a, b) ==
    IF FIsZero(a) THEN FZero
    ELSE LET q == LDiv(LShl(a.m, MantissaBits + GuardBits), b.m)
         IN  FRound(a.neg # b.neg, q.q, a.e - (MantissaBits + GuardBits) - b.e,
                    ~q.exact)
\* sqrt(a) for a >= 0: the root of m * 2^k with e - k even
FSqrt(a) ==
    IF FIsZero(a) THEN FZero
    ELSE LET k == MantissaBits + GuardBits + ((a.e - (MantissaBits + GuardBits)) % 2)
             r == LSqrt(LShl(a.m, k))
         IN  FRound(FALSE, r.q, (a.e - k) \div 2, ~r.exact)
\* a < b
FLt(a, b) ==
    IF FIsZero(a) THEN (~FIsZero(b) /\ ~b.neg)
    ELSE IF FIsZero(b) THEN a.neg
    ELSE IF a.neg # b.neg THEN a.neg
    ELSE LET e == Min(a.e, b.e)
             c == LCmp(LShl(a.m, a.e - e), LShl(b.m, b.e - e))
         IN  IF a.neg THEN c > 0 ELSE c < 0
FMin(a, b) == IF FLt(b, a) THEN b ELSE a
FMax(a, b) == IF FLt(a, b) THEN b ELSE a
\* EPSILON = 1e-10 as the f64 the compiler reads it as
EPSILON64 == [neg |-> FALSE, m |-> <<15803, 13231, 29567, 219>>, e |-> -86]

\* Vector::from_slice of whole numbers
RECURSIVE FVec(_)
FVec(v) == IF Len(v) = 0 THEN <<>> ELSE <<FFromInt(v[1])>> \o FVec(Tail(v))
\* Iterator::sum of the products a[k] * b[k], from 0.0 on
RECURSIVE FSumProducts(_, _, _)
FSumProducts(a, b, n) ==
    IF n = 0 THEN FZero ELSE FAdd(FSumProducts(a, b, n - 1), FMul(a[n], b[n]))
\* Vector::dot, Vector::norm_squared, Vector::norm
FDot(a, b) == FSumProducts(a, b, Len(a))
FNormSquared(v) == FDot(v, v)
FNorm(v) == FSqrt(FNormSquared(v))
\* &Vector - &Vector, &Vector / f64
RECURSIVE FVSub(_, _)
FVSub(a, b) ==
    IF Len(a) = 0 THEN <<>> ELSE <<FSub(a[1], b[1])>> \o FVSub(Tail(a), Tail(b))
RECURSIVE FVDiv(_, _)
FVDiv(v, n) == IF Len(v) = 0 THEN <<>> ELSE <<FDiv(v[1], n)>> \o FVDiv(Tail(v), n)
\* Vector::zeros, Vector::normalize
FZeros(n) == FVec(Zeros(n))
FNormalize(v) ==
    IF FLt(FNorm(v), EPSILON64) THEN FZeros(Len(v)) ELSE FVDiv(v, FNorm(v))

\* IntentVector::from_vector (direction and magnitude)
from_vector(vector) ==
    [direction |-> IF FLt(EPSILON64, FNorm(vector)) THEN FNormalize(vector)
                   ELSE FZeros(Len(vector)),
     magnitude |-> FNorm(vector)]
\* IntentVector::preserved: the alignment and the magnitude ratio
alignment(intent, original, result) ==
    FDot(intent.direction, FNormalize(FVSub(result, original)))
magnitude_ratio(intent, original, result) ==
    FMin(FDiv(FNorm(FVSub(result, original)), intent.magnitude), FOne)
\* IntentVector::preserved in f64
preserved_f64(intent, original, result) ==
    IF FLt(intent.magnitude, EPSILON64) THEN FOne
    ELSE IF FLt(FNorm(FVSub(result, original)), EPSILON64) THEN FZero
    ELSE FMax(FMul(alignment(intent, original, result),
                   magnitude_ratio(intent, original, result)), FZero)

\* TOLERANCE = 1e-8 as f64
TOLERANCE64 == [neg |-> FALSE, m |-> <<3130, 17505, 26171, 171>>, e |-> -79]
\* a * 2^(-s), which is exact
FScaleDown(a, s) == IF FIsZero(a) THEN a ELSE [a EXCEPT !.e = @ - s]
FAbs(a) == [a EXCEPT !.neg = FALSE]
\* &Vector + &Vector, &Vector * f64
RECURSIVE FVAdd(_, _)
FVAdd(a, b) ==
    IF Len(a) = 0 THEN <<>> ELSE <<FAdd(a[1], b[1])>> \o FVAdd(Tail(a), Tail(b))
RECURSIVE FVMul(_, _)
FVMul(v, n) == IF Len(v) = 0 THEN <<>> ELSE <<FMul(v[1], n)>> \o FVMul(Tail(v), n)
\* Vector::distance
FDistance(a, b) == FNorm(FVSub(a, b))
\* IntentVector::vector
vector(intent) == FVMul(intent.direction, intent.magnitude)

---------------------------------------------------------------------------
(* rank.rs.  A point is a vector of whole numbers p together with a shift s:
   the f64 vector p * 2^(-s) *)

\* the f64 vector of a point
RECURSIVE Point64(_, _)
Point64(p, s) ==
    IF Len(p) = 0 THEN <<>>
    ELSE <<FScaleDown(FFromInt(p[1]), s)>> \o Point64(Tail(p), s)

\* RankingCriteria::default
RankingCriteria ==
    [intent_weight |-> FOne,
     margin_weight |-> [neg |-> FALSE, m |-> <<0, 0, 0, 128>>, e |-> -53],
     stability_weight |-> [neg |-> FALSE, m |-> <<13107, 26214, 19660, 153>>, e |-> -54]]

\* rank_candidates: the ScoredCandidate of a point
ScoredCandidate(p, s, intended_position, original, criteria) ==
    LET intent_distance == FDistance(Point64(p, s), intended_position)
        stability_distance == FDistance(Point64(p, s), original)
    IN  [point |-> p,
         score |-> FAdd(FMul(criteria.intent_weight, intent_distance),
                        FMul(criteria.stability_weight, stability_distance)),
         components |-> [intent_distance |-> intent_distance, margin |-> FZero,
                         stability_distance |-> stability_distance]]
RECURSIVE Scored(_, _, _, _, _)
Scored(cands, s, intended_position, original, criteria) ==
    IF Len(cands) = 0 THEN <<>>
    ELSE <<ScoredCandidate(cands[1], s, intended_position, original, criteria)>>
            \o Scored(Tail(cands), s, intended_position, original, criteria)

\* the comparator of rank_candidates, = Less: scores by partial_cmp, and the
\* points lexicographically when the scores are Equal
ScoredBefore(a, b) ==
    FLt(a.score, b.score) \/ (a.score = b.score /\ LexLess(a.point, b.point))
\* slice::sort_by (stable)
RECURSIVE InsertScored(_, _)
InsertScored(sorted, e) ==
    IF Len(sorted) = 0 THEN <<e>>
    ELSE IF ScoredBefore(e, sorted[Len(sorted)])
         THEN Append(InsertScored(SubSeq(sorted, 1, Len(sorted) - 1), e),
                     sorted[Len(sorted)])
         ELSE Append(sorted, e)
RECURSIVE SortScored(_)
SortScored(l) ==
    IF Len(l) = 0 THEN <<>>
    ELSE InsertScored(SortScored(SubSeq(l, 1, Len(l) - 1)), l[Len(l)])

\* rank_candidates(candidates, intent, original, criteria), the points and
\* original having shift s
rank_candidates(cands, s, intent, original, criteria) ==
    SortScored(Scored(cands, s, FVAdd(original, vector(intent)), original, criteria))

\* scores_equal
scores_equal(a, b) == FLt(FAbs(FSub(a, b)), TOLERANCE64)

---------------------------------------------------------------------------
(* candidates.rs, rank.rs, intent.rs: one call of a free function, on a box
   built by Bounds::new where the function takes one *)

\* Bounds::center on a box whose centre is on the grid
center(bounds) == [d \in 1..Len(bounds.min) |-> (bounds.min[d] + bounds.max[d]) \div 2]
OnGrid(bounds) == \A d \in 1..Len(bounds.min) : (bounds.min[d] + bounds.max[d]) % 2 = 0

\* boundary_candidates: the i-th corner, bit d of i choosing min or max
Corner(bounds, i) ==
    [d \in 1..Len(bounds.min) |->
        IF (i \div (2 ^ (d - 1))) % 2 = 0 THEN bounds.min[d] ELSE bounds.max[d]]
Corners(bounds) ==
    IF Len(bounds.min) <= 5
    THEN [i \in 1..(2 ^ Len(bounds.min)) |-> Corner(bounds, i - 1)]
    ELSE <<>>
\* boundary_candidates: the centres of the two faces across dimension d
FaceCentres(bounds, d) ==
    << [center(bounds) EXCEPT ![d] = bounds.min[d]],
       [center(bounds) EXCEPT ![d] = bounds.max[d]] >>
\* boundary_candidates: the loop over the dimensions, which pushes two face
\* centres and then looks at the length, and the centre pushed after it
RECURSIVE EdgeMidpoints(_, _, _, _)
EdgeMidpoints(cands, bounds, d, remaining) ==
    IF d > Len(bounds.min) THEN Take(Append(cands, center(bounds)), remaining)
    ELSE LET pushed == cands \o FaceCentres(bounds, d)
         IN  IF Len(pushed) >= remaining THEN pushed
             ELSE EdgeMidpoints(pushed, bounds, d + 1, remaining)

\* boundary_candidates(bounds, existing)
boundary_candidates(bounds, existing) ==
    LET remaining == Max(MAX_CANDIDATES - existing, 0)
    IN  IF remaining = 0 THEN <<>>
        ELSE IF Len(Corners(bounds)) >= remaining THEN Take(Corners(bounds), remaining)
        ELSE EdgeMidpoints(Corners(bounds), bounds, 1, remaining)

\* a dimension above the one up to which corners are generated
HighDim == 6
\* the numbers of candidates that exist already: none, and around the quota
ExistingCounts ==
    {0, MAX_CANDIDATES - 9, MAX_CANDIDATES - 5, MAX_CANDIDATES - 3,
     MAX_CANDIDATES - 1, MAX_CANDIDATES, MAX_CANDIDATES + 1}

\* Bounds::new on a box of HighDim dimensions
NewHyperBox ==
    Construct("Bounds", Bounds(Zeros(HighDim), [k \in 1..HighDim |-> 2 * k]))

HasBounds == subject.type = "Bounds" /\ ~subject.panicked

\* local_search(center, bounds, existing), without a box or with the box built
LocalSearch ==
    /\ grid = "unit"
    /\ subject = NoSubject \/ (HasBounds /\ Len(subject.value.min) = 1)
    /\ \E c \in VectorsOfDim(1), existing \in ExistingCounts :
          LET bounds == IF HasBounds THEN Some(subject.value) ELSE None
          IN  Call([fn |-> "local_search", center |-> c, bounds |-> bounds,
                    existing |-> existing,
                    result |-> local_search(c, bounds, existing)])
\* boundary_candidates(bounds, existing) on the box built
BoundaryCandidates ==
    /\ HasBounds /\ OnGrid(subject.value)
    /\ \E existing \in ExistingCounts :
          Call([fn |-> "boundary_candidates", existing |-> existing,
                result |-> boundary_candidates(subject.value, existing)])

\* the shift of points a few of which fit into TOLERANCE
FineShift == 30
\* lists of candidates: two of the 1-dimensional vectors, or three
\* 2-dimensional ones, in any order
RankPoints == { <<0, 0>>, <<0, MaxCoord>>, <<MaxCoord, 0>> }
CandidateLists ==
    { <<a, b>> : a, b \in VectorsOfDim(1) } \cup
    { l \in [1..3 -> RankPoints] : \A i, j \in 1..3 : l[i] = l[j] => i = j }
\* the Points of a ranked list
RECURSIVE Points(_)
Points(l) == IF Len(l) = 0 THEN <<>> ELSE <<l[1].point>> \o Points(Tail(l))

\* rank_candidates(candidates, &IntentVector::from_vector(v), &zeros,
\* &RankingCriteria::default())
RankCandidates ==
    /\ grid = "unit" /\ subject = NoSubject
    /\ \E cands \in CandidateLists, s \in {0, FineShift} :
       \E v \in { w \in {<<0>>, <<MaxCoord>>, <<1, MaxCoord>>} : Len(w) = Len(cands[1]) } :
          Call([fn |-> "rank_candidates", candidates |-> cands, shift |-> s,
                vector |-> v,
                result |-> rank_candidates(cands, s, from_vector(Point64(v, s)),
                                           FZeros(Len(v)), RankingCriteria)])
\* rank_candidates on the points of the list it returned
RankAgain ==
    /\ call.fn = "rank_candidates" /\ recall = NoCall
    /\ recall' = [fn |-> "rank_candidates",
                  result |-> rank_candidates(Points(call.result), call.shift,
                                             from_vector(Point64(call.vector, call.shift)),
                                             FZeros(Len(call.vector)), RankingCriteria)]
    /\ UNCHANGED <<grid, constraints, subject, call, kernelVars, suggestVars>>

NextCandidates ==
    \/ NewBounds \/ NewHyperBox
    \/ LocalSearch \/ BoundaryCandidates
    \/ RankCandidates \/ RankAgain

SpecCandidates == InitConstraint /\ [][NextCandidates]_vars

\* IntentVector::from_vector(vector).preserved(original, result), on vectors
\* of whole numbers
Preserved ==
    /\ grid = "unit" /\ subject = NoSubject
    /\ \E v \in Vectors :
       \E change \in VectorsOfDim(Len(v)), original \in {Zeros(Len(v)), v} :
          Call([fn |-> "preserved", vector |-> v, original |-> original,
                point |-> VAdd(original, change),
                result |-> preserved_f64(from_vector(FVec(v)), FVec(original),
                                         FVec(VAdd(original, change)))])

SpecIntent == InitConstraint /\ [][Preserved]_vars

---------------------------------------------------------------------------
(* Properties of candidate generation and ranking (SpecCandidates) *)

\* the radius of the shell a point of a 1-dimensional search is on
ShellRadius(c, p) == Abs(p[1] - c[1])

RECURSIVE AllFaceCentres(_, _)
AllFaceCentres(bounds, d) ==
    IF d > Len(bounds.min) THEN <<>>
    ELSE FaceCentres(bounds, d) \o AllFaceCentres(bounds, d + 1)
BoundaryPoints(bounds) ==
    Corners(bounds) \o AllFaceCentres(bounds, 1) \o <<center(bounds)>>

\* C18: boundary_candidates(bounds, existing) returns at most
\* max(0, 24 - existing) points, and they are the first points of the list
\* of the corners (when the dimension is at most 5), the face centres and
\* the centre, in this order.
C18_BoundaryCandidates ==
    call.fn = "boundary_candidates"
        => /\ Len(call.result) <= Max(MAX_CANDIDATES - call.existing, 0)
           /\ call.result = Take(BoundaryPoints(subject.value), Len(call.result))

\* C19: IntentVector::preserved(original, result) lies in [0, 1]; it is 1.0
\* when the magnitude of the intent is below EPSILON; otherwise 0.0 when
\* result - original has a norm below EPSILON or points against the
\* direction of the intent; otherwise alignment * min(ratio, 1); and it is
\* 1.0 when result - original equals the intended vector.
C19_Preserved ==
    call.fn = "preserved"
        => LET intent == from_vector(FVec(call.vector))
               original == FVec(call.original)
               result == FVec(call.point)
               none == FLt(intent.magnitude, EPSILON64)
               still == FLt(FNorm(FVSub(result, original)), EPSILON64)
               against == FLt(alignment(intent, original, result), FZero)
           IN  /\ ~FLt(call.result, FZero) /\ ~FLt(FOne, call.result)
               /\ none => call.result = FOne
               /\ (~none /\ (still \/ against)) => call.result = FZero
               /\ (~none /\ ~still /\ ~against)
                    => call.result = FMul(alignment(intent, original, result),
                                          magnitude_ratio(intent, original, result))
               /\ VSub(call.point, call.original) = call.vector => call.result = FOne

\* C20: rank_candidates returns the candidates in ascending order of score;
\* two candidates whose scores differ by less than TOLERANCE are in
\* lexicographic order of their points; and ranking the points of the
\* returned list returns them in the same order.
C20_RankOrder ==
    call.fn = "rank_candidates"
        => /\ \A i, j \in 1..Len(call.result) :
                 i < j => /\ ~FLt(call.result[j].score, call.result[i].score)
                          /\ scores_equal(call.result[i].score, call.result[j].score)
                                => ~LexLess(call.result[j].point, call.result[i].point)
           /\ recall.fn = "rank_candidates"
                 => Points(recall.result) = Points(call.result)

---------------------------------------------------------------------------
(* primitives.rs in f64: FGState::from_violation on the numbers it computes *)

\* 1.0 - EPSILON and 1.0 + EPSILON, as the comparisons compute them
OneMinusEps64 == FSub(FOne, EPSILON64)
OnePlusEps64 == FAdd(FOne, EPSILON64)
\* safe_divide(a, b) = a / (b + EPSILON)
safe_divide(a, b) == FDiv(a, FAdd(b, EPSILON64))
\* FGState::from_violation from the quotient fg on
classify(fg) ==
    IF FLt(fg, EPSILON64) THEN [kind |-> "Valid"]
    ELSE IF FLt(fg, OneMinusEps64) THEN [kind |-> "Slack", margin |-> FSub(FOne, fg)]
    ELSE IF FLt(fg, OnePlusEps64) THEN [kind |-> "Exact"]
    ELSE [kind |-> "Finfr", excess |-> FSub(fg, FOne)]
\* FGState::from_violation
from_violation_f64(violation, effort) == classify(safe_divide(violation, effort))

\* violations a + k * EPSILON and efforts e, for whole a, k and e
MaxViolation == 2
MaxEpsSteps == 3
\* FGState::from_violation(violation, effort); the record keeps the ratio
\* violation / (effort + EPSILON) beside the state
FromViolation ==
    /\ grid = "unit" /\ subject = NoSubject /\ call = NoCall
    /\ \E a \in 0..MaxViolation, k \in 0..MaxEpsSteps, e \in 0..MaxViolation :
        Call([fn |-> "from_violation",
              violation |-> FAdd(FFromInt(a), FMul(FFromInt(k), EPSILON64)),
              effort |-> FFromInt(e),
              ratio |-> safe_divide(FAdd(FFromInt(a), FMul(FFromInt(k), EPSILON64)),
                                    FFromInt(e)),
              result |-> from_violation_f64(
                             FAdd(FFromInt(a), FMul(FFromInt(k), EPSILON64)),
                             FFromInt(e))])

---------------------------------------------------------------------------
(* verify.rs: the contract verifier *)

\* constants.rs: TIMEOUT_US, in microseconds
TIMEOUT_US == 500000

Ok == [ok |-> TRUE, kind |-> "Ok"]
InvalidSuggestion(constraint_index, violation_amount) ==
    [ok |-> FALSE, kind |-> "InvalidSuggestion",
     constraint_index |-> constraint_index, violation_amount |-> violation_amount]
NonTerminating(elapsed_us) ==
    [ok |-> FALSE, kind |-> "NonTerminating", iterations |-> 0, elapsed_us |-> elapsed_us]
DiffMismatch(expected, actual) ==
    [ok |-> FALSE, kind |-> "DiffMismatch", expected |-> expected, actual |-> actual]

\* verify_validity from the constraint at position i on (the index the code
\* reports counts from 0); satisfied and distance assert that the point has
\* the constraint's dimension
RECURSIVE verify_validity_from(_, _, _)
verify_validity_from(suggestion, cs, i) ==
    IF i > Len(cs) THEN Ok
    ELSE IF Len(suggestion) # dim(cs[i]) THEN Panicked
    ELSE IF ~satisfied(cs[i], suggestion)
         THEN InvalidSuggestion(i - 1, distance(cs[i], suggestion))
    ELSE verify_validity_from(suggestion, cs, i + 1)
verify_validity(suggestion, cs) == verify_validity_from(suggestion, cs, 1)

\* verify_all_valid from the suggestion at position k on: `?` returns the
\* first error
RECURSIVE verify_all_valid_from(_, _, _)
verify_all_valid_from(suggestions, cs, k) ==
    IF k > Len(suggestions) THEN Ok
    ELSE IF verify_validity(suggestions[k], cs) # Ok
         THEN verify_validity(suggestions[k], cs)
    ELSE verify_all_valid_from(suggestions, cs, k + 1)
verify_all_valid(suggestions, cs) == verify_all_valid_from(suggestions, cs, 1)

\* a verifier that looks at the clock before it looks at the suggestions
verify_contract_clock_first(suggestions, cs, original, elapsed_us) ==
    IF elapsed_us > TIMEOUT_US THEN NonTerminating(elapsed_us)
    ELSE verify_all_valid(suggestions, cs)
\* verify_contract; `original` is not used
verify_contract(suggestions, cs, original, elapsed_us) ==
    IF verify_all_valid(suggestions, cs) # Ok THEN verify_all_valid(suggestions, cs)
    ELSE IF elapsed_us > TIMEOUT_US THEN NonTerminating(elapsed_us)
    ELSE Ok

\* at most this many suggestions in a list given to verify_contract
MaxSuggestions == 2
\* suggestions of one and of two dimensions
ContractPoints == { v \in Vectors : Len(v) = 1 \/ v[2] = 0 }
\* constraints of one and of two dimensions, of the kinds a response is
\* checked against
ContractConstraints ==
    { BoxBounds(<<0>>, <<Widest>>), LinearConstraint(<<1>>, 0),
      BoxBounds(<<0, 0>>, <<Widest, Widest>>), LinearConstraint(<<-1, -1>>, 0),
      CollisionConstraint(Bounds(<<0>>, <<Widest>>), 0) }
\* verify_contract(suggestions, constraints, original, elapsed_us)
VerifyContract ==
    /\ subject = NoSubject /\ call = NoCall
    /\ \E suggestions \in ListsUpTo(ContractPoints, MaxSuggestions),
       cs \in ListsUpTo(ContractConstraints, MaxConstraints),
       elapsed_us \in {0, TIMEOUT_US, TIMEOUT_US + 1} :
        Call([fn |-> "verify_contract", suggestions |-> suggestions, list |-> cs,
              elapsed_us |-> elapsed_us,
              result |-> verify_contract(suggestions, cs, Zeros(1), elapsed_us)])

\* ---- explain.rs: StateDiff, and verify_diff_monotonicity of verify.rs ----
\* floor of TOLERANCE in ticks: v > TOLERANCE iff v > TolFloor for a whole v
TolFloor == IF grid = "fine" THEN 100 * EpsTicks ELSE 0
DimensionChange(dimension, original, suggested) ==
    [dimension |-> dimension, original |-> original, suggested |-> suggested,
     delta |-> suggested - original]
\* the changes StateDiff::new pushes for the dimensions from position i on
\* (the code's dimension counts from 0)
RECURSIVE ChangesFrom(_, _, _)
ChangesFrom(original, suggested, i) ==
    IF i > Len(original) THEN <<>>
    ELSE (IF Abs(suggested[i] - original[i]) > TolFloor
          THEN <<DimensionChange(i - 1, original[i], suggested[i])>>
          ELSE <<>>) \o ChangesFrom(original, suggested, i + 1)
\* StateDiff::new; total_distance is the norm of the vector kept here
StateDiff(original, suggested) ==
    [original |-> original, suggested |-> suggested,
     changes |-> ChangesFrom(original, suggested, 1),
     total_distance |-> VSub(original, suggested)]
\* the loop of verify_diff_monotonicity from the change at position k on
RECURSIVE ApplyChanges(_, _, _)
ApplyChanges(reconstructed, changes, k) ==
    IF k > Len(changes) THEN reconstructed
    ELSE ApplyChanges(IF changes[k].dimension < Len(reconstructed)
                      THEN [reconstructed EXCEPT ![changes[k].dimension + 1] =
                                                     changes[k].suggested]
                      ELSE reconstructed,
                      changes, k + 1)
\* verify_diff_monotonicity
verify_diff_monotonicity(original, suggested, diff) ==
    IF NormGt(VSub(suggested, ApplyChanges(original, diff.changes, 1)), TolFloor)
    THEN DiffMismatch(suggested, ApplyChanges(original, diff.changes, 1))
    ELSE Ok

\* fine grid: three quarters of TOLERANCE
NearTol == 75 * EpsTicks
\* coordinates of the states a diff is taken of
DiffScalars ==
    IF grid = "fine" THEN {-NearTol, 0, HalfTol, NearTol, FineWidth}
    ELSE {-1, 0, 1, MaxCoord}
DiffVectors == { <<a>> : a \in DiffScalars } \cup { <<a, b>> : a, b \in DiffScalars }
\* verify_diff_monotonicity(original, suggested, StateDiff::new(original, suggested))
DiffMonotonicity ==
    /\ subject = NoSubject /\ call = NoCall
    /\ \E original \in DiffVectors :
        \E suggested \in { v \in DiffVectors : Len(v) = Len(original) } :
            Call([fn |-> "verify_diff_monotonicity", original |-> original,
                  suggested |-> suggested, diff |-> StateDiff(original, suggested),
                  result |-> verify_diff_monotonicity(original, suggested,
                                                      StateDiff(original, suggested))])

\* ---- serde: the derived Serialize and Deserialize of the constraints ----
\* Serialize writes every field that is not marked #[serde(skip)]
serialize(c) ==
    CASE c.kind = "box"       -> [kind |-> "box", min |-> c.min, max |-> c.max]
      [] c.kind = "linear"    -> [kind |-> "linear", normal |-> c.normal, bound |-> c.bound]
      [] c.kind = "collision" -> [kind |-> "collision", obstacle |-> c.obstacle,
                                  separation |-> c.separation]
\* Deserialize reads those fields and gives a skipped field its
\* Default::default(): reversed = false, normal_norm_sq = 0.0 and
\* effective_bounds = None, with which effective() is the obstacle
deserialize(j) ==
    CASE j.kind = "box"       -> [kind |-> "box", min |-> j.min, max |-> j.max,
                                  reversed |-> FALSE]
      [] j.kind = "linear"    -> [kind |-> "linear", normal |-> j.normal, bound |-> j.bound,
                                  normal_norm_sq |-> 0]
      [] j.kind = "collision" -> [kind |-> "collision", obstacle |-> j.obstacle,
                                  separation |-> j.separation,
                                  effective_bounds |-> j.obstacle]

\* satisfied, distance and project of a constraint at p, as one record
Behaviour(c, p) ==
    [satisfied |-> satisfied(c, p), distance |-> distance(c, p),
     project |-> IF ProjectPanics(c) THEN Panicked ELSE project(c, p)]
\* the subject serialized and deserialized, and both constraints asked about
\* one point (the margin of CollisionConstraint::project is a whole number
\* of ticks on the fine grid only)
RoundTrip ==
    /\ subject.type \in {"BoxBounds", "LinearConstraint", "CollisionConstraint"}
    /\ ~subject.panicked
    /\ subject.type = "CollisionConstraint" => grid = "fine"
    /\ call = NoCall
    /\ \E p \in VectorsOfDim(dim(subject.value)) :
          Call([fn |-> "round_trip", point |-> p,
                restored |-> deserialize(serialize(subject.value)),
                before |-> Behaviour(subject.value, p),
                after |-> Behaviour(deserialize(serialize(subject.value)), p)])

\* ---- linalg.rs: lexicographic_cmp on components that may be NaN ----
\* an f64 component: a whole number, or NaN
NaN == [nan |-> TRUE, v |-> 0]
Num(v) == [nan |-> FALSE, v |-> v]
\* f64::partial_cmp: None when either side is NaN
partial_cmp(a, b) ==
    IF a.nan \/ b.nan THEN "None"
    ELSE IF a.v < b.v THEN "Less"
    ELSE IF a.v > b.v THEN "Greater"
    ELSE "Equal"
\* a None arm that answers Less whenever the two are not both NaN
nan_cmp_less(a, b) == IF a.nan /\ b.nan THEN "Equal" ELSE "Less"
\* the None arm of lexicographic_cmp: both NaN continue as equal, a NaN on
\* the left is Greater, a NaN on the right is Less
nan_cmp(a, b) ==
    IF a.nan /\ b.nan THEN "Equal"
    ELSE IF a.nan THEN "Greater"
    ELSE "Less"
\* usize::cmp of the dimensions
dim_cmp(m, n) == IF m < n THEN "Less" ELSE IF m > n THEN "Greater" ELSE "Equal"
\* the loop of lexicographic_cmp over the zipped components from position k on
RECURSIVE lexicographic_cmp_from(_, _, _)
lexicographic_cmp_from(a, b, k) ==
    IF k > Len(a) \/ k > Len(b) THEN dim_cmp(Len(a), Len(b))
    ELSE IF partial_cmp(a[k], b[k]) = "Equal" THEN lexicographic_cmp_from(a, b, k + 1)
    ELSE IF partial_cmp(a[k], b[k]) # "None" THEN partial_cmp(a[k], b[k])
    ELSE IF nan_cmp(a[k], b[k]) = "Equal" THEN lexicographic_cmp_from(a, b, k + 1)
    ELSE nan_cmp(a[k], b[k])
\* Vector::lexicographic_cmp
lexicographic_cmp(a, b) == lexicographic_cmp_from(a, b, 1)

\* components and vectors that are compared
Components == { Num(v) : v \in -1..1 } \cup { NaN }
ComparedVectors(n) == [1..n -> Components]
\* a.lexicographic_cmp(b) for the pairs of three vectors
LexicographicCmp ==
    /\ subject = NoSubject /\ call = NoCall
    /\ \E n \in 1..2 :
       \E a, b, c \in ComparedVectors(n) :
          Call([fn |-> "lexicographic_cmp", a |-> a, b |-> b, c |-> c,
                ab |-> lexicographic_cmp(a, b), ba |-> lexicographic_cmp(b, a),
                bc |-> lexicographic_cmp(b, c), ac |-> lexicographic_cmp(a, c),
                aa |-> lexicographic_cmp(a, a)])

---------------------------------------------------------------------------
(* projection/weighted.rs in f64: project_weighted onto a box *)

\* f64::clamp for min <= max
FClamp(v, lo, hi) == IF FLt(v, lo) THEN lo ELSE IF FLt(hi, v) THEN hi ELSE v
\* BoxBounds::project in f64: one clamp per dimension
BoxProject64(p, min, max) ==
    [i \in 1..Len(p) |-> FClamp(p[i], min[i], max[i])]
\* BoxBounds::contains in f64
Contains64(min, max, p) ==
    \A i \in 1..Len(p) :
        ~(FLt(p[i], FSub(min[i], EPSILON64)) \/ FLt(FAdd(max[i], EPSILON64), p[i]))
\* one coordinate of project_weighted, given sqrt(weights[i]): scaled by it,
\* clamped to the scaled bounds, and multiplied by 1.0 / sqrt(weights[i])
weighted_coordinate(p, lo, hi, sqrt_weight) ==
    FMul(FClamp(FMul(p, sqrt_weight), FMul(lo, sqrt_weight), FMul(hi, sqrt_weight)),
         FDiv(FOne, sqrt_weight))
\* BoxBounds::new(scaled_min, scaled_max) panics: a scaled minimum exceeds
\* its scaled maximum by more than EPSILON
ScaledBoxPanics(min, max, weights) ==
    \E i \in 1..Len(min) :
        FLt(FAdd(FMul(max[i], FSqrt(weights[i])), EPSILON64),
            FMul(min[i], FSqrt(weights[i])))
\* project_weighted panics: an assert_eq! on the dimensions, the assert! on
\* a weight, or BoxBounds::new on the scaled bounds
WeightedPanics(p, min, max, weights) ==
    \/ Len(p) # Len(min) \/ Len(p) # Len(weights)
    \/ \E i \in 1..Len(p) : ~FLt(EPSILON64, weights[i])
    \/ ScaledBoxPanics(min, max, weights)
\* project_weighted(point, bounds, weights), when it does not panic
project_weighted(p, min, max, weights) ==
    [i \in 1..Len(p) |-> weighted_coordinate(p[i], min[i], max[i], FSqrt(weights[i]))]

\* coordinates are whole numbers times 2^BigShift, or times 1
BigShift == 40
\* the box [0, 3]^n, points below, on and above its upper bound, and weights
\* 0, EPSILON, 1 and 3
WeightedMax == 3
WeightedPoints(n) == [1..n -> {-1, WeightedMax, WeightedMax + 2}]
Weights(n) == [1..n -> {FZero, EPSILON64, FOne, FFromInt(3)}]
\* project_weighted(point, BoxBounds::new(zeros, max), weights), and
\* BoxBounds::project of the same point
ProjectWeighted ==
    /\ grid = "unit" /\ subject = NoSubject /\ call = NoCall
    /\ \E n \in 1..2, s \in {0, BigShift} :
       \E p \in WeightedPoints(n), weights \in Weights(n) :
          Call([fn |-> "project_weighted", point |-> p, shift |-> s,
                max |-> [i \in 1..n |-> WeightedMax], weights |-> weights,
                unweighted |-> BoxProject64(Point64(p, -s), FZeros(n),
                                            Point64([i \in 1..n |-> WeightedMax], -s)),
                panicked |-> WeightedPanics(Point64(p, -s), FZeros(n),
                                            Point64([i \in 1..n |-> WeightedMax], -s),
                                            weights),
                result |-> IF WeightedPanics(Point64(p, -s), FZeros(n),
                                             Point64([i \in 1..n |-> WeightedMax], -s),
                                             weights)
                           THEN <<>>
                           ELSE project_weighted(Point64(p, -s), FZeros(n),
                                                 Point64([i \in 1..n |-> WeightedMax], -s),
                                                 weights)])

---------------------------------------------------------------------------
(* The verification helpers, serialization and lexicographic_cmp (SpecVerify),
   and the f64 functions from_violation and project_weighted (SpecFloat) *)

NextVerify ==
    \/ NewBoxBounds \/ NewReversed \/ NewLinear \/ NewCollision
    \/ RoundTrip
    \/ VerifyContract \/ DiffMonotonicity \/ LexicographicCmp
SpecVerify == InitConstraint /\ [][NextVerify]_vars

NextFloat == FromViolation \/ ProjectWeighted
SpecFloat == InitConstraint /\ [][NextFloat]_vars

---------------------------------------------------------------------------
(* Properties of the classification, the verification helpers and the
   weighted projection (SpecFloat, SpecVerify) *)

\* C21: from_violation(violation, effort) classifies the ratio
\* rho = violation / (effort + EPSILON) into exactly one state: Valid when
\* rho < EPSILON, Slack(1 - rho) when EPSILON <= rho < 1 - EPSILON, Exact when
\* 1 - EPSILON <= rho <= 1 + EPSILON, Finfr(rho - 1) when rho > 1 + EPSILON;
\* every Slack has its margin in (0, 1] and every Finfr an excess above 0.
C21_Classification ==
    call.fn = "from_violation" =>
        /\ call.result.kind = "Valid" <=> FLt(call.ratio, EPSILON64)
        /\ call.result.kind = "Slack" <=>
              (~FLt(call.ratio, EPSILON64) /\ FLt(call.ratio, OneMinusEps64))
        /\ call.result.kind = "Exact" <=>
              (~FLt(call.ratio, OneMinusEps64) /\ ~FLt(OnePlusEps64, call.ratio))
        /\ call.result.kind = "Finfr" <=> FLt(OnePlusEps64, call.ratio)
        /\ call.result.kind = "Slack" =>
              /\ call.result.margin = FSub(FOne, call.ratio)
              /\ FLt(FZero, call.result.margin) /\ ~FLt(FOne, call.result.margin)
        /\ call.result.kind = "Finfr" =>
              /\ call.result.excess = FSub(call.ratio, FOne)
              /\ FLt(FZero, call.result.excess)

\* the suggestions of the call all have the dimension of all its constraints
\* (a dimension mismatch is a precondition violation, which halts the call)
SameDimensions(suggestions, cs) ==
    \A k \in 1..Len(suggestions), i \in 1..Len(cs) : Len(suggestions[k]) = dim(cs[i])
\* position of the first suggestion that violates a constraint, and of the
\* first constraint a suggestion violates
FirstInvalid(suggestions, cs) ==
    CHOOSE k \in 1..Len(suggestions) :
        /\ ~all_satisfied(cs, suggestions[k])
        /\ \A j \in 1..(k - 1) : all_satisfied(cs, suggestions[j])
FirstViolated(suggestion, cs) ==
    CHOOSE i \in 1..Len(cs) :
        /\ ~satisfied(cs[i], suggestion)
        /\ \A j \in 1..(i - 1) : satisfied(cs[j], suggestion)

C23_DiffPasses ==
    call.fn = "verify_diff_monotonicity" => call.result = Ok

\* C24: a constraint (box, halfspace, collision with separation > 0) that is
\* serialized and then deserialized behaves as the original: for every point
\* p, satisfied(p), distance(p) and project(p) of the round-tripped constraint
\* equal those of the original, although normal_norm_sq, effective_bounds and
\* reversed are not in the serialized form.
C24_RoundTrip ==
    (/\ call.fn = "round_trip"
     /\ subject.type = "CollisionConstraint" => subject.value.separation > 0)
        => call.after = call.before

\* C25: for every point, box and weight vector with all weights above
\* EPSILON, project_weighted(point, box, weights) lies inside the box and does
\* not depend on the weights: a coordinate within its bounds is unchanged and
\* any other lands on the bound it violated, which is the unweighted box
\* projection; a weight that is not above EPSILON halts the call.
C25_WeightedProjection ==
    call.fn = "project_weighted" =>
        IF \E i \in 1..Len(call.weights) : ~FLt(EPSILON64, call.weights[i])
        THEN call.panicked
        ELSE /\ ~call.panicked
             /\ Contains64(FZeros(Len(call.point)), Point64(call.max, -call.shift),
                           call.result)
             /\ call.result = call.unweighted

\* Ordering::reverse
Reverse(ord) ==
    IF ord = "Less" THEN "Greater" ELSE IF ord = "Greater" THEN "Less" ELSE "Equal"
\* the first position where a and b differ as components (NaN is one value)
FirstDifference(a, b) ==
    CHOOSE k \in 1..Len(a) : a[k] # b[k] /\ \A j \in 1..(k - 1) : a[j] = b[j]

\* C26: lexicographic_cmp is a total order on vectors of equal dimension,
\* vectors with NaN components included: NaN compares greater than every
\* number and equal to NaN, cmp(a, b) is the reverse of cmp(b, a), and the
\* relation is transitive.
C26_TotalOrder ==
    call.fn = "lexicographic_cmp" =>
        /\ call.ab \in {"Less", "Equal", "Greater"}
        /\ call.aa = "Equal"
        /\ call.ab = Reverse(call.ba)
        /\ call.ab = "Equal" <=> call.a = call.b
        /\ (call.ab # "Greater" /\ call.bc # "Greater") => call.ac # "Greater"
        /\ (call.ab = "Less" /\ call.bc # "Greater") => call.ac = "Less"
        /\ (call.ab # "Greater" /\ call.bc = "Less") => call.ac = "Less"
        /\ call.a # call.b =>
              LET k == FirstDifference(call.a, call.b)
              IN  /\ call.a[k].nan => call.ab = "Greater"
                  /\ call.b[k].nan => call.ab = "Less"
\* a number against a NaN after an equal pair of NaN, and both vectors above
\* one that starts with a number
C26_Witness ==
    /\ call.fn = "lexicographic_cmp"
    /\ Len(call.a) = 2
    /\ call.a[1].nan /\ call.b[1].nan
    /\ ~call.a[2].nan /\ call.b[2].nan /\ ~call.c[1].nan
    /\ call.ab = "Less" /\ call.ba = "Greater"
    /\ call.bc = "Greater" /\ call.ac = "Greater"

---------------------------------------------------------------------------
(* Properties of the search statistics (Spec) *)

\* the cycles the projection of a call on the state's arguments performs:
\* suggest_convex projects onto the whole list, suggest_nonconvex onto its
\* convex constraints if there are any
CyclesPerformed ==
    IF OnConvexPath THEN project_convex_with_result(Intended, constraints).iterations
    ELSE IF OnNonconvexPath /\ Len(ConvexOnly(constraints)) > 0
         THEN project_convex_with_result(Intended, ConvexOnly(constraints)).iterations
    ELSE 0

\* C27: the search statistics of every response agree with the work done in
\* the call: iterations_used is the number of Dykstra cycles the projection
\* performed, candidates_verified <= candidates_generated <= 24, and the
\* number of suggestions is at most candidates_verified whenever a
\* projection or a candidate search ran.
C27_SearchStats ==
    \A r \in Responses :
        /\ r.search_stats.iterations_used = CyclesPerformed
        /\ r.search_stats.candidates_verified <= r.search_stats.candidates_generated
        /\ r.search_stats.candidates_generated <= MAX_CANDIDATES
        /\ ~OnTrivialPath => Len(r.suggestions) <= r.search_stats.candidates_verified

---------------------------------------------------------------------------
(* projection/dykstra.rs: project_convex_with_history, one pass of its loop
   per step *)

\* project_convex_with_history in progress: the iterate, the correction
\* vectors, the cycles done, the history, and whether the loop still runs
HistoryCall(xx, yy, n, history, running) ==
    [fn |-> "project_convex_with_history", point |-> xx, y |-> yy,
     iterations |-> n, history |-> history, running |-> running,
     panicked |-> FALSE]
\* lines 85-107: the history starts with the point; an early return for the
\* empty list only, then the assertion, then the correction vectors
HistoryStart(p, cs) ==
    IF Len(cs) = 0 THEN HistoryCall(p, <<>>, 0, <<p>>, FALSE)
    ELSE IF ~all_convex(cs)
         THEN [fn |-> "project_convex_with_history", panicked |-> TRUE,
               running |-> FALSE]
    ELSE HistoryCall(p, [k \in 1..Len(cs) |-> Zeros(Len(p))], 0, <<p>>, TRUE)
\* lines 109-135: one pass of the outer loop from the call state h: the cycle
\* gives r, r.x is pushed to the history, and the loop ends when the iterate
\* moved less than TOLERANCE or MAX_ITERATIONS passes are done
HistoryPass(cs, h, r) ==
    HistoryCall(r.x, r.y, h.iterations + 1, Append(h.history, r.x),
                ~(BelowTolerance(Change(VSub(r.x, h.point)))
                    \/ LoopExhausted(h.iterations + 1)))

\* project_convex_with_history(point, constraints) is called after
\* project_convex_with_result has returned on the same arguments
WithHistory ==
    /\ pc = "done" /\ call = NoCall
    /\ Call(HistoryStart(point, constraints))
\* one pass of its outer loop
HistoryCycle ==
    /\ call.fn = "project_convex_with_history"
    /\ call.running
    /\ call' = HistoryPass(constraints, call,
                           DykstraCycle(constraints, call.point, call.y, 1))
    /\ UNCHANGED <<grid, constraints, subject, recall, kernelVars, suggestVars>>

NextHistory ==
    ReturnEarly \/ AssertConvexFails \/ EnterLoop \/ Cycle
        \/ WithHistory \/ HistoryCycle
SpecHistory == InitDykstra /\ [][NextHistory]_vars

---------------------------------------------------------------------------
(* Properties of project_convex_with_history (SpecHistory) *)

\* C28: project_convex_with_history refines project_convex_with_result: on
\* every point and list of convex constraints both return the same point and
\* the same iteration count, and the history starts with the input point, has
\* iterations + 1 entries (at most 101) and ends with the returned point.
C28_HistoryRefines ==
    (call.fn = "project_convex_with_history" /\ ~call.running
        /\ all_convex(constraints)) =>
        /\ ~call.panicked
        /\ call.point = x
        /\ call.iterations = iterations
        /\ call.history[1] = point
        /\ Len(call.history) = call.iterations + 1
        /\ Len(call.history) <= MAX_ITERATIONS + 1
        /\ call.history[Len(call.history)] = call.point

---------------------------------------------------------------------------
(* projection/dykstra.rs in f64: project_convex_with_result on halfspaces,
   one constraint of the inner loop per step *)

\* LinearConstraint::new on whole numbers: the squared norm is computed once
LinearConstraint64(normal, bound) ==
    [normal |-> FVec(normal), bound |-> FFromInt(bound),
     normal_norm_sq |-> FNormSquared(FVec(normal))]
\* LinearConstraint::slack, is_degenerate, satisfied, project
slack64(c, p) == FSub(FDot(c.normal, p), c.bound)
is_degenerate64(c) == FLt(FAbs(c.normal_norm_sq), EPSILON64)
LinearSatisfied64(c, p) ==
    IF is_degenerate64(c) THEN ~FLt(c.bound, FNeg(EPSILON64))
    ELSE ~FLt(EPSILON64, slack64(c, p))
LinearProject64(c, p) ==
    IF is_degenerate64(c) THEN p
    ELSE IF ~FLt(EPSILON64, slack64(c, p)) THEN p
    ELSE FVSub(p, FVMul(c.normal, FDiv(slack64(c, p), c.normal_norm_sq)))
all_satisfied64(cs, p) == \A k \in 1..Len(cs) : LinearSatisfied64(cs[k], p)

\* a step that leaves the correction vector of its constraint as it was
DykstraStepNoCorrection(cs, xx, yy, k) ==
    [x |-> LinearProject64(cs[k], FVAdd(xx, yy[k])), y |-> yy]
\* one pass of the inner loop, for the constraint at position k: z = x + y[k],
\* x_new = project(z), y[k] = z - x_new, x = x_new
DykstraStep(cs, xx, yy, k) ==
    [x |-> LinearProject64(cs[k], FVAdd(xx, yy[k])),
     y |-> [yy EXCEPT ![k] = FVSub(FVAdd(xx, yy[k]),
                                   LinearProject64(cs[k], FVAdd(xx, yy[k])))]]

\* the call in progress: its arguments, the iterate, x_prev, the correction
\* vectors, the constraints the inner loop has processed in this pass, the
\* passes started, and whether the loop still runs
LoopCall(p, cs, xx, xp, yy, k, n, running) ==
    [fn |-> "project_convex_with_result", point |-> p, list |-> cs, x |-> xx,
     x_prev |-> xp, y |-> yy, step |-> k, iterations |-> n, running |-> running]
\* lines 145-181: the two early returns, then the correction vectors
LoopStart(p, cs) ==
    IF Len(cs) = 0 \/ all_satisfied64(cs, p)
    THEN LoopCall(p, cs, p, p, <<>>, 0, 0, FALSE)
    ELSE LoopCall(p, cs, p, p, [k \in 1..Len(cs) |-> FZeros(Len(p))], 0, 0, TRUE)
\* lines 183-197: the top of an outer pass (x_prev, iterations) when the
\* inner loop starts, and one pass of the inner loop, which gives r
LoopStep(h, r) ==
    LoopCall(h.point, h.list, r.x, IF h.step = 0 THEN h.x ELSE h.x_prev, r.y,
             h.step + 1, IF h.step = 0 THEN h.iterations + 1 ELSE h.iterations,
             TRUE)
\* lines 199-216: the convergence test after the inner loop, and the return
\* after the last pass
LoopEnd(h) ==
    LoopCall(h.point, h.list, h.x, h.x_prev, h.y, 0, h.iterations,
             ~(FLt(FDistance(h.x, h.x_prev), TOLERANCE64)
                 \/ LoopExhausted(h.iterations)))

\* the inputs: halfspaces with slanted normals, and starting points on both
\* sides of them
MaxStart == 4
Constraints64 ==
    { LinearConstraint64(<<-3, -3>>, -1), LinearConstraint64(<<1, 0>>, 0),
      LinearConstraint64(<<-3, -2>>, -1) }
Points64 == { FVec(<<-MaxStart, 0>>), FVec(<<MaxStart - 1, -MaxStart>>) }

ProjectConvex ==
    /\ call = NoCall
    /\ grid = "unit" /\ subject = NoSubject
    /\ \E p \in Points64, cs \in ListsUpTo(Constraints64, MaxConstraints) :
            Call(LoopStart(p, cs))
StepConstraint ==
    /\ call.fn = "project_convex_with_result"
    /\ call.running
    /\ call.step < Len(call.list)
    /\ call' = LoopStep(call, DykstraStep(call.list, call.x, call.y, call.step + 1))
    /\ UNCHANGED <<grid, constraints, subject, recall, kernelVars, suggestVars>>
EndCycle ==
    /\ call.fn = "project_convex_with_result"
    /\ call.running
    /\ call.step = Len(call.list)
    /\ call' = LoopEnd(call)
    /\ UNCHANGED <<grid, constraints, subject, recall, kernelVars, suggestVars>>

NextSteps == ProjectConvex \/ StepConstraint \/ EndCycle
SpecSteps == InitConstraint /\ [][NextSteps]_vars

---------------------------------------------------------------------------
(* Properties of the Dykstra loop (SpecSteps) *)

\* a + b of two binary numbers with mantissas of any length, not rounded
ExactAdd(a, b) ==
    IF Len(a.m) = 0 THEN b
    ELSE IF Len(b.m) = 0 THEN a
    ELSE IF a.neg = b.neg
         THEN [neg |-> a.neg, e |-> Min(a.e, b.e),
               m |-> LAdd(LShl(a.m, a.e - Min(a.e, b.e)), LShl(b.m, b.e - Min(a.e, b.e)))]
    ELSE IF LCmp(LShl(a.m, a.e - Min(a.e, b.e)), LShl(b.m, b.e - Min(a.e, b.e))) >= 0
         THEN [neg |-> a.neg, e |-> Min(a.e, b.e),
               m |-> LSub(LShl(a.m, a.e - Min(a.e, b.e)), LShl(b.m, b.e - Min(a.e, b.e)))]
    ELSE [neg |-> b.neg, e |-> Min(a.e, b.e),
          m |-> LSub(LShl(b.m, b.e - Min(a.e, b.e)), LShl(a.m, a.e - Min(a.e, b.e)))]
\* component d of x + y[1] + ... + y[n] - p as a real number
RECURSIVE SumOfCorrections(_, _, _)
SumOfCorrections(yy, n, d) ==
    IF n = 0 THEN FZero ELSE ExactAdd(SumOfCorrections(yy, n - 1, d), yy[n][d])
Drift(h, d) ==
    ExactAdd(ExactAdd(h.x[d], SumOfCorrections(h.y, Len(h.y), d)), FNeg(h.point[d]))
InLoop == call.fn = "project_convex_with_result" /\ Len(call.y) > 0

---------------------------------------------------------------------------
(* Properties of the tolerance test of the loop (SpecDykstra) *)

\* C30: whenever project_convex_with_result reports converged = true for a
\* list of boxes and halfspaces with a non-empty intersection, the returned
\* point satisfies every constraint of the list: a cycle in which the iterate
\* moves less than TOLERANCE never ends the loop at an infeasible point.
C30_ConvergedFeasible ==
    (pc = "done" /\ converged /\ all_convex(constraints)
        /\ NonEmptyIntersection(constraints))
        => all_satisfied(constraints, x)

=============================================================================
